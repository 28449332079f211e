--------------------------- MODULE EspiSmi_proof ---------------------------
(***************************************************************************)
(* Registered children of eSPI events stay reachable, for any number of    *)
(* children, events and operations and in any order of them.               *)
(***************************************************************************)
EXTENDS EspiSmi, ProofLemmas, SequenceTheorems, TLAPS

\* The types with a descriptor; the slave event has none.
Described == AllTypes \ {"EspiSlaveSmi"}

RegisterFile == [Slaves -> [Registers -> SUBSET (W1C \cup Enables)]]

\* The first part of TypeOK, what the descriptors are used for during a walk,
\* and that no child is ever registered for the slave event.
Typing ==
  /\ db \in [AllTypes -> Seq(Handle \cup {Default})]
  /\ counter \in [AllTypes -> Nat]
  /\ handle \subseteq TopLevel
  /\ reg \in RegisterFile
  /\ db["EspiSlaveSmi"] = <<>>
  /\ pc \in {"os", "scan", "callback", "reset"}
  /\ DOMAIN loc = {"top", "type", "cur", "next"}
  /\ pc \in {"scan", "callback"} => loc.top \in TopLevel \ {"EspiPmc"}
  /\ pc = "callback" => ESPI_SMI_TYPE[loc.type] \in Described

Inv == Typing /\ ChildrenReachable

-----------------------------------------------------------------------------
(* The tables.                                                             *)

LEMMA SomeTypes ==
  /\ AllTypes = {"BiosWrProtect", "BiosWrReport", "PcNonFatalErr", "PcFatalErr", "VwNonFatalErr",
                 "VwFatalErr", "FlashNonFatalErr", "FlashFatalErr", "LnkType1Err", "EspiSlaveSmi"}
  /\ \A i \in 1..9 : ESPI_SMI_TYPE[i] \in Described
<1>1. DOMAIN ESPI_SMI_TYPE = 1..10
  BY DEF ESPI_SMI_TYPE
<1>2. 1..10 = {1, 2, 3, 4, 5, 6, 7, 8, 9, 10}
  OBVIOUS
<1>3. AllTypes = {ESPI_SMI_TYPE[i] : i \in {1, 2, 3, 4, 5, 6, 7, 8, 9, 10}}
  BY <1>1, <1>2, Zenon DEF AllTypes, Range
<1>4. AllTypes = {"BiosWrProtect", "BiosWrReport", "PcNonFatalErr", "PcFatalErr", "VwNonFatalErr",
                 "VwFatalErr", "FlashNonFatalErr", "FlashFatalErr", "LnkType1Err", "EspiSlaveSmi"}
  BY <1>3, SMT DEF ESPI_SMI_TYPE
<1>5. \A i \in 1..9 : ESPI_SMI_TYPE[i] \in Described
  BY <1>4, SMT DEF ESPI_SMI_TYPE, Described
<1> QED BY <1>4, <1>5

LEMMA SomeTopTypes ==
  /\ \A t \in AllTypes : TopOf(t) \in TopLevel /\ t \in TypesOf(TopOf(t))
  /\ \A top \in TopLevel : TypesOf(top) \subseteq AllTypes
  /\ \A top \in TopLevel \ {"EspiPmc"} : \A i \in Barrier[top] : ESPI_SMI_TYPE[i] \in Described
<1>1. ASSUME NEW t \in AllTypes PROVE \E top \in TopLevel : t \in TypesOf(top)
  BY <1>1, SomeTypes, SMT DEF TopLevel, TypesOf, Barrier, ESPI_SMI_TYPE
<1>2. \A top \in TopLevel : Barrier[top] \subseteq 1..10
  BY DEF TopLevel, Barrier
<1>3. \A top \in TopLevel : TypesOf(top) \subseteq AllTypes
  <2>1. DOMAIN ESPI_SMI_TYPE = 1..10
    BY DEF ESPI_SMI_TYPE
  <2> QED BY <1>2, <2>1, Zenon DEF TypesOf, AllTypes, Range
<1>4. \A top \in TopLevel \ {"EspiPmc"} : Barrier[top] \subseteq 1..9
  BY DEF TopLevel, Barrier
<1>5. \A t \in AllTypes : TopOf(t) \in TopLevel /\ t \in TypesOf(TopOf(t))
  BY <1>1, Zenon DEF TopOf
<1> QED BY <1>3, <1>4, <1>5, SomeTypes

\* A descriptor enables its event with an enable bit and masks status bits
\* only; two events that share a register have enable bits of their own.
LEMMA Descriptors ==
  /\ \A t \in Described :
       /\ mEspiDescriptor[t].reg \in Registers
       /\ mEspiDescriptor[t].sts \in W1C
       /\ mEspiDescriptor[t].en \in Enables
       /\ mEspiDescriptor[t].mask \subseteq W1C
  /\ \A t, u \in Described :
       t # u /\ mEspiDescriptor[t].reg = mEspiDescriptor[u].reg
         => mEspiDescriptor[t].en # mEspiDescriptor[u].en
<1>1. Described = {"BiosWrProtect", "BiosWrReport", "PcNonFatalErr", "PcFatalErr", "VwNonFatalErr",
                   "VwFatalErr", "FlashNonFatalErr", "FlashFatalErr", "LnkType1Err"}
  BY SomeTypes DEF Described
<1>2. \A t \in Described :
       /\ mEspiDescriptor[t].reg \in Registers
       /\ mEspiDescriptor[t].sts \in W1C
       /\ mEspiDescriptor[t].en \in Enables
       /\ mEspiDescriptor[t].mask \subseteq W1C
  BY <1>1, SMT DEF mEspiDescriptor, Descriptor, Registers, W1C, Enables
<1>3. \A t, u \in Described :
       t # u /\ mEspiDescriptor[t].reg = mEspiDescriptor[u].reg
         => mEspiDescriptor[t].en # mEspiDescriptor[u].en
  BY <1>1, SMT DEF mEspiDescriptor, Descriptor
<1> QED BY <1>2, <1>3

-----------------------------------------------------------------------------
(* Register access.                                                        *)

\* A read-modify-write keeps an enable bit that it does not mask out, sets the
\* ones it is told to, and leaves the other registers and slaves alone.
LEMMA UpdateFacts ==
  ASSUME NEW g \in RegisterFile, NEW ss, NEW r \in Registers,
         NEW mask, NEW set \in SUBSET (W1C \cup Enables)
  PROVE  /\ Update(g, ss, r, mask, set) \in RegisterFile
         /\ \A s \in Slaves, q \in Registers, b \in Enables :
              b \in g[s][q] /\ (q = r => b \notin mask) => b \in Update(g, ss, r, mask, set)[s][q]
         /\ \A s \in ss \cap Slaves, b \in Enables :
              b \in set => b \in Update(g, ss, r, mask, set)[s][r]
<1> DEFINE new(bits) == AndThenOr(bits, mask, set)
<1>1. \A bits \in SUBSET (W1C \cup Enables) :
        /\ new(bits) \in SUBSET (W1C \cup Enables)
        /\ \A b \in Enables : b \in new(bits) <=> b \in (bits \ mask) \cup set
  <2>1. W1C \cap Enables = {}
    BY DEF W1C, Enables
  <2> QED BY <2>1 DEF AndThenOr
<1>2. \A s \in Slaves : /\ g[s] \in [Registers -> SUBSET (W1C \cup Enables)]
                        /\ \A q \in Registers : g[s][q] \in SUBSET (W1C \cup Enables)
  BY DEF RegisterFile
<1>3. \A s \in Slaves :
        Update(g, ss, r, mask, set)[s] = IF s \in ss THEN [g[s] EXCEPT ![r] = new(g[s][r])] ELSE g[s]
  BY DEF Update
<1> HIDE DEF new
<1>4. Update(g, ss, r, mask, set) \in RegisterFile
  <2>1. Update(g, ss, r, mask, set) =
          [s \in Slaves |-> IF s \in ss THEN [g[s] EXCEPT ![r] = new(g[s][r])] ELSE g[s]]
    BY DEF Update, new
  <2>2. \A s \in Slaves : (IF s \in ss THEN [g[s] EXCEPT ![r] = new(g[s][r])] ELSE g[s])
                            \in [Registers -> SUBSET (W1C \cup Enables)]
    BY <1>1, <1>2
  <2> QED BY <2>1, <2>2 DEF RegisterFile
<1>5. \A s \in Slaves : \A q \in Registers :
        Update(g, ss, r, mask, set)[s][q] = IF s \in ss /\ q = r THEN new(g[s][r]) ELSE g[s][q]
  BY <1>2, <1>3
<1>6. ASSUME NEW s \in Slaves, NEW q \in Registers, NEW b \in Enables,
             b \in g[s][q], q = r => b \notin mask
      PROVE  b \in Update(g, ss, r, mask, set)[s][q]
  <2>1. CASE s \in ss /\ q = r
    <3>1. b \in new(g[s][r])
      BY <1>1, <1>2, <1>6, <2>1, Zenon
    <3> QED BY <1>5, <2>1, <3>1
  <2>2. CASE ~(s \in ss /\ q = r)
    BY <1>5, <1>6, <2>2
  <2> QED BY <2>1, <2>2
<1>7. ASSUME NEW s \in ss \cap Slaves, NEW b \in Enables, b \in set
      PROVE  b \in Update(g, ss, r, mask, set)[s][r]
  <2>1. b \in new(g[s][r])
    BY <1>1, <1>2, <1>7
  <2> QED BY <1>5, <2>1
<1> QED BY <1>4, <1>6, <1>7

EnabledAt(g, s, t) == mEspiDescriptor[t].en \in g[s][mEspiDescriptor[t].reg]

\* Clearing, enabling and disabling event t, and the other events.
LEMMA AccessFacts ==
  ASSUME NEW g \in RegisterFile, NEW t \in Described
  PROVE  /\ EspiSmiClearStatus(g, t) \in RegisterFile
         /\ EspiSmiEnableSource(g, t) \in RegisterFile
         /\ EspiSmiDisableSource(g, t) \in RegisterFile
         /\ \A s \in Slaves, u \in Described :
              EnabledAt(g, s, u) => /\ EnabledAt(EspiSmiClearStatus(g, t), s, u)
                                    /\ EnabledAt(EspiSmiEnableSource(g, t), s, u)
                                    /\ u # t => EnabledAt(EspiSmiDisableSource(g, t), s, u)
         /\ \A s \in Slaves : HasRegister(s, mEspiDescriptor[t].reg)
                                => EnabledAt(EspiSmiEnableSource(g, t), s, t)
<1> DEFINE d == mEspiDescriptor[t]
           e == IF t \in {"BiosWrProtect", "BiosWrReport", "LnkType1Err"} THEN {} ELSE {d.en}
           all == {s \in Slaves : HasRegister(s, d.reg)}
<1>1. /\ d.reg \in Registers /\ d.sts \in W1C /\ d.en \in Enables /\ d.mask \subseteq W1C
      /\ W1C \cap Enables = {}
  BY Descriptors DEF W1C, Enables
<1>2. \A u \in Described : mEspiDescriptor[u].reg \in Registers /\ mEspiDescriptor[u].en \in Enables
  BY Descriptors
<1>3. EspiSmiClearStatus(g, t) = Update(g, {0}, d.reg, d.mask, {d.sts})
  BY DEF EspiSmiClearStatus
<1>4. EspiSmiEnableSource(g, t) = Update(g, all, d.reg, W1C, {d.en})
  BY DEF EspiSmiEnableSource
<1>5. EspiSmiDisableSource(g, t) = Update(g, all, d.reg, W1C \cup e, {})
  BY DEF EspiSmiDisableSource
<1>6. /\ {d.sts} \in SUBSET (W1C \cup Enables) /\ {d.en} \in SUBSET (W1C \cup Enables)
      /\ {} \in SUBSET (W1C \cup Enables)
  BY <1>1
<1> HIDE DEF d, e, all
<1>7. ASSUME NEW s \in Slaves, NEW u \in Described, EnabledAt(g, s, u)
      PROVE  /\ EnabledAt(Update(g, {0}, d.reg, d.mask, {d.sts}), s, u)
             /\ EnabledAt(Update(g, all, d.reg, W1C, {d.en}), s, u)
             /\ u # t => EnabledAt(Update(g, all, d.reg, W1C \cup e, {}), s, u)
  <2>1. mEspiDescriptor[u].en \notin d.mask /\ mEspiDescriptor[u].en \notin W1C
    BY <1>1, <1>2
  <2>2. u # t /\ mEspiDescriptor[u].reg = d.reg => mEspiDescriptor[u].en \notin e
    BY Descriptors DEF d, e
  <2>3. EnabledAt(Update(g, {0}, d.reg, d.mask, {d.sts}), s, u)
    BY <1>1, <1>2, <1>6, <1>7, <2>1, UpdateFacts, Zenon DEF EnabledAt
  <2>4. EnabledAt(Update(g, all, d.reg, W1C, {d.en}), s, u)
    BY <1>1, <1>2, <1>6, <1>7, <2>1, UpdateFacts, Zenon DEF EnabledAt
  <2>5. ASSUME u # t PROVE EnabledAt(Update(g, all, d.reg, W1C \cup e, {}), s, u)
    <3>1. mEspiDescriptor[u].reg = d.reg => mEspiDescriptor[u].en \notin W1C \cup e
      BY <2>1, <2>2, <2>5
    <3> QED BY <1>1, <1>2, <1>6, <1>7, <3>1, UpdateFacts, Zenon DEF EnabledAt
  <2> QED BY <2>3, <2>4, <2>5
<1>8. ASSUME NEW s \in Slaves, HasRegister(s, d.reg)
      PROVE  EnabledAt(Update(g, all, d.reg, W1C, {d.en}), s, t)
  <2>1. s \in all \cap Slaves /\ d.en \in {d.en}
    BY <1>8 DEF all
  <2> QED BY <1>1, <1>6, <2>1, UpdateFacts, Zenon DEF EnabledAt, d
<1>9. /\ Update(g, {0}, d.reg, d.mask, {d.sts}) \in RegisterFile
      /\ Update(g, all, d.reg, W1C, {d.en}) \in RegisterFile
      /\ Update(g, all, d.reg, W1C \cup e, {}) \in RegisterFile
  BY <1>1, <1>6, UpdateFacts, Zenon
<1> QED BY <1>3, <1>4, <1>5, <1>7, <1>8, <1>9, Zenon DEF d

-----------------------------------------------------------------------------
(* The invariant.                                                          *)

\* ChildrenReachable in the words of the lemmas.
LEMMA Reachable ==
  ChildrenReachable <=>
    \A t \in AllTypes :
      /\ counter[t] = Len(db[t])
      /\ db[t] # <<>> =>
           /\ TopOf(t) \in handle
           /\ \A s \in Slaves : HasRegister(s, mEspiDescriptor[t].reg) => EnabledAt(reg, s, t)
BY DEF ChildrenReachable, EnabledAt, Bits

LEMMA ReachableAfter ==
  ChildrenReachable' <=>
    \A t \in AllTypes :
      /\ counter'[t] = Len(db'[t])
      /\ db'[t] # <<>> =>
           /\ TopOf(t) \in handle'
           /\ \A s \in Slaves : HasRegister(s, mEspiDescriptor[t].reg) => EnabledAt(reg', s, t)
BY DEF ChildrenReachable, EnabledAt, Bits

\* Access to the registers that keeps every enable bit keeps the property.
LEMMA SameLists ==
  ASSUME ChildrenReachable, Typing, UNCHANGED <<db, counter>>, handle \subseteq handle',
         \A s \in Slaves, u \in Described : EnabledAt(reg, s, u) => EnabledAt(reg', s, u)
  PROVE  ChildrenReachable'
<1>1. \A t \in AllTypes : db[t] # <<>> => t \in Described
  BY DEF Typing, Described
<1> QED BY <1>1, Reachable, ReachableAfter

LEMMA Initially == Init => Inv
<1> SUFFICES ASSUME Init PROVE Inv
  OBVIOUS
<1> DEFINE clean == [s \in Slaves |-> [r \in Registers |-> {}]]
<1>1. clean \in RegisterFile
  BY DEF RegisterFile
<1>2. "LnkType1Err" \in Described /\ "EspiSlaveSmi" \in AllTypes /\ "LnkType1Err" \in AllTypes
  BY SomeTypes DEF Described
<1>3. reg = EspiSmiEnableSource(clean, "LnkType1Err")
  BY DEF Init
<1> HIDE DEF clean
<1>4. reg \in RegisterFile
  BY <1>1, <1>2, <1>3, AccessFacts, Zenon
<1>5. \A s \in Slaves : HasRegister(s, mEspiDescriptor["LnkType1Err"].reg)
                          => EnabledAt(reg, s, "LnkType1Err")
  BY <1>1, <1>2, <1>3, AccessFacts, Zenon
<1>6. TopOf("LnkType1Err") = "EspiSerialIrq"
  BY <1>2, SomeTopTypes DEF TopLevel, TypesOf, Barrier, ESPI_SMI_TYPE
<1>7. Typing
  <2>1. <<Default>> \in Seq(Handle \cup {Default}) /\ <<>> \in Seq(Handle \cup {Default})
    OBVIOUS
  <2>2. /\ db \in [AllTypes -> Seq(Handle \cup {Default})] /\ db["EspiSlaveSmi"] = <<>>
        /\ counter \in [AllTypes -> Nat]
    BY <1>2, <2>1 DEF Init
  <2> QED BY <1>4, <2>2 DEF Init, Typing, NoWalk, TopLevel
<1>8. ChildrenReachable
  <2>1. \A t \in AllTypes : counter[t] = Len(db[t])
    BY DEF Init
  <2>2. \A t \in AllTypes : db[t] # <<>> => t = "LnkType1Err"
    BY DEF Init
  <2>3. "EspiSerialIrq" \in handle
    BY DEF Init
  <2> QED BY <1>5, <1>6, <2>1, <2>2, <2>3, Reachable, Zenon
<1> QED BY <1>7, <1>8 DEF Inv

-----------------------------------------------------------------------------
(* One lemma for each action.                                              *)

\* An event adds bits.
LEMMA EventKeeps ==
  ASSUME Inv, NEW s \in Slaves, NEW t \in Described, Event(s, t)
  PROVE  Inv'
<1> DEFINE d == mEspiDescriptor[t]
           b == {d.sts} \cup (IF t = "LnkType1Err" THEN {"SLCRR"} ELSE {})
<1>1. reg \in RegisterFile /\ d.reg \in Registers /\ b \subseteq W1C \cup Enables
  BY Descriptors DEF Inv, Typing, W1C
<1>2. reg' = [reg EXCEPT ![s][d.reg] = @ \cup b]
  BY DEF Event
<1>3. UNCHANGED <<db, counter, handle, pc, loc>>
  BY DEF Event
<1> HIDE DEF d, b
<1>4. \A v \in Slaves : reg[v] \in [Registers -> SUBSET (W1C \cup Enables)]
  BY <1>1 DEF RegisterFile
<1>5. reg' \in RegisterFile
  <2>1. reg[s][d.reg] \cup b \in SUBSET (W1C \cup Enables)
    BY <1>1, <1>4
  <2> QED BY <1>1, <1>2, <1>4, <2>1 DEF RegisterFile
<1>6. \A v \in Slaves, q \in Registers : reg[v][q] \subseteq reg'[v][q]
  BY <1>1, <1>2, <1>4 DEF RegisterFile
<1>7. \A v \in Slaves, u \in Described : EnabledAt(reg, v, u) => EnabledAt(reg', v, u)
  BY <1>6, Descriptors, Zenon DEF EnabledAt
<1>8. ChildrenReachable'
  BY <1>3, <1>7, SameLists DEF Inv
<1> QED BY <1>3, <1>5, <1>8 DEF Inv, Typing

\* Registration enables the event of the child and keeps the others enabled.
LEMMA RegisterKeeps ==
  ASSUME Inv, NEW t \in Described, NEW h \in Handle, Register(t, h)
  PROVE  Inv'
<1>1. reg \in RegisterFile /\ t \in AllTypes /\ t # "EspiSlaveSmi"
  BY DEF Inv, Typing, Described
<1>2. reg' = EspiSmiEnableSource(EspiSmiClearStatus(reg, t), t)
  BY DEF Register
<1>3. EspiSmiClearStatus(reg, t) \in RegisterFile
  BY <1>1, AccessFacts, Zenon
<1>4. /\ reg' \in RegisterFile
      /\ \A s \in Slaves, u \in Described : EnabledAt(reg, s, u) => EnabledAt(reg', s, u)
      /\ \A s \in Slaves : HasRegister(s, mEspiDescriptor[t].reg) => EnabledAt(reg', s, t)
  BY <1>1, <1>2, <1>3, AccessFacts, Zenon
<1>5. /\ db' = [db EXCEPT ![t] = Append(@, h)]
      /\ counter' = [counter EXCEPT ![t] = @ + 1]
      /\ handle' = handle \cup {TopOf(t)}
      /\ UNCHANGED <<pc, loc>>
  BY DEF Register
<1>6. /\ Append(db[t], h) \in Seq(Handle \cup {Default})
      /\ Len(Append(db[t], h)) = Len(db[t]) + 1
  <2>1. db[t] \in Seq(Handle \cup {Default}) /\ h \in Handle \cup {Default}
    BY <1>1 DEF Inv, Typing
  <2> QED BY <2>1, AppendProperties
<1>7. Typing'
  <2>1. TopOf(t) \in TopLevel
    BY <1>1, SomeTopTypes
  <2> QED BY <1>1, <1>4, <1>5, <1>6, <2>1 DEF Inv, Typing
<1>8. ASSUME NEW u \in AllTypes
      PROVE  /\ counter'[u] = Len(db'[u])
             /\ db'[u] # <<>> =>
                  /\ TopOf(u) \in handle'
                  /\ \A s \in Slaves : HasRegister(s, mEspiDescriptor[u].reg) => EnabledAt(reg', s, u)
  <2>1. CASE u = t
    <3>1. counter'[t] = Len(db'[t])
      BY <1>1, <1>5, <1>6, Reachable DEF Inv, Typing
    <3> QED BY <1>4, <1>5, <2>1, <3>1
  <2>2. CASE u # t
    <3>1. counter'[u] = counter[u] /\ db'[u] = db[u]
      BY <1>5, <2>2 DEF Inv, Typing
    <3>2. db[u] # <<>> => u \in Described
      BY DEF Inv, Typing, Described
    <3> QED BY <1>4, <1>5, <3>1, <3>2, Reachable DEF Inv
  <2> QED BY <2>1, <2>2
<1> QED BY <1>7, <1>8, ReachableAfter DEF Inv

\* A child is taken out: its event is disabled only when it was the last one,
\* and a parent is unregistered only when none of its events has children.
LEMMA UnRegisterKeeps ==
  ASSUME Inv, NEW h \in Handle, EspiSmiUnRegister(h)
  PROVE  Inv'
<1> DEFINE left(t) == IF counter[t] = 0 THEN 0 ELSE counter[t] - 1
           cnt(t)  == [counter EXCEPT ![t] = left(t)]
<1>1. PICK t \in AllTypes :
        /\ \E i \in DOMAIN db[t] : db[t][i] = h /\ db' = [db EXCEPT ![t] = RemoveAt(@, i)]
        /\ counter' = cnt(t)
        /\ reg' = IF counter[t] # 0 /\ left(t) = 0 THEN EspiSmiDisableSource(reg, t) ELSE reg
        /\ handle' = handle \ SafeToDisable(cnt(t))
        /\ UNCHANGED <<pc, loc>>
  BY DEF EspiSmiUnRegister
<1>2. PICK i \in DOMAIN db[t] : db' = [db EXCEPT ![t] = RemoveAt(@, i)]
  BY <1>1
<1>3. db[t] \in Seq(Handle \cup {Default})
  BY DEF Inv, Typing
<1>4. Len(db[t]) \in Nat \ {0} /\ counter[t] = Len(db[t]) /\ left(t) = counter[t] - 1
  <2>1. Len(db[t]) \in Nat \ {0}
    BY <1>3, LenProperties
  <2> QED BY <2>1, Reachable DEF Inv
<1>5. t \in Described
  BY <1>4 DEF Inv, Typing, Described
<1>6. /\ RemoveAt(db[t], i) \in Seq(Handle \cup {Default})
      /\ Len(RemoveAt(db[t], i)) = left(t)
  BY <1>3, <1>4, RemoveAtFacts
<1> HIDE DEF left
<1>7. counter' = [counter EXCEPT ![t] = left(t)] /\ left(t) \in Nat
  BY <1>1, <1>4
<1>8. /\ reg' \in RegisterFile
      /\ \A s \in Slaves, u \in Described : EnabledAt(reg, s, u) /\ u # t => EnabledAt(reg', s, u)
  <2>1. reg \in RegisterFile
    BY DEF Inv, Typing
  <2>2. CASE reg' = reg
    BY <2>1, <2>2
  <2>3. CASE reg' = EspiSmiDisableSource(reg, t)
    BY <1>5, <2>1, <2>3, AccessFacts, Zenon
  <2> QED BY <1>1, <2>2, <2>3
<1>9. left(t) # 0 => reg' = reg
  BY <1>1
<1>10. Typing'
  BY <1>1, <1>2, <1>5, <1>6, <1>7, <1>8 DEF Inv, Typing, Described
<1>11. ASSUME NEW u \in AllTypes
       PROVE  /\ counter'[u] = Len(db'[u])
              /\ db'[u] # <<>> =>
                   /\ db[u] # <<>>
                   /\ \A s \in Slaves : HasRegister(s, mEspiDescriptor[u].reg) => EnabledAt(reg', s, u)
  <2>1. CASE u = t
    <3>1. counter'[t] = left(t) /\ db'[t] = RemoveAt(db[t], i)
      BY <1>2, <1>7 DEF Inv, Typing
    <3>2. db[t] # <<>>
      BY <1>4
    <3>3. db'[t] # <<>> => left(t) # 0
      BY <1>6, <3>1, EmptySeq
    <3> QED BY <1>6, <1>9, <2>1, <3>1, <3>2, <3>3, Reachable DEF Inv
  <2>2. CASE u # t
    <3>1. counter'[u] = counter[u] /\ db'[u] = db[u]
      BY <1>2, <1>7, <2>2 DEF Inv, Typing
    <3>2. db[u] # <<>> => u \in Described
      BY DEF Inv, Typing, Described
    <3> QED BY <1>8, <2>2, <3>1, <3>2, Reachable DEF Inv
  <2> QED BY <2>1, <2>2
<1>12. ASSUME NEW u \in AllTypes, db'[u] # <<>>
       PROVE  TopOf(u) \in handle'
  <2>1. db[u] # <<>> /\ counter'[u] = Len(db'[u])
    BY <1>11, <1>12
  <2>2. counter'[u] # 0
    <3>1. db'[u] \in Seq(Handle \cup {Default})
      BY <1>10 DEF Typing
    <3> QED BY <1>12, <2>1, <3>1, EmptySeq
  <2>3. TopOf(u) \in handle /\ u \in TypesOf(TopOf(u))
    BY <2>1, Reachable, SomeTopTypes DEF Inv
  <2>4. TopOf(u) \notin SafeToDisable(counter')
    BY <2>2, <2>3 DEF SafeToDisable
  <2> QED BY <1>1, <2>3, <2>4
<1> QED BY <1>10, <1>11, <1>12, ReachableAfter DEF Inv

\* The walk finds the events of its parent and clears status bits only.
LEMMA ScanKeeps ==
  ASSUME Inv, Scan
  PROVE  Inv'
<1> DEFINE active == {i \in Barrier[loc.top] : i >= loc.type /\ EspiSmiSourceIsActive(ESPI_SMI_TYPE[i])}
           first  == CHOOSE a \in active : \A j \in active : a <= j
<1>1. loc.top \in TopLevel \ {"EspiPmc"} /\ reg \in RegisterFile
  BY DEF Scan, Inv, Typing
<1>2. UNCHANGED <<db, counter, handle>>
  BY DEF Scan, WalkUnchanged
<1>3. active \in SUBSET Nat
  BY <1>1 DEF TopLevel, Barrier
<1>4. active # {} => first \in active
  BY <1>3, Minimum, Zenon
<1>5. active # {} => ESPI_SMI_TYPE[first] \in Described
  BY <1>1, <1>4, SomeTopTypes
<1>6. \/ pc' = "os" /\ UNCHANGED reg
      \/ /\ active # {} /\ pc' = pc /\ loc'.top = loc.top
         /\ reg' = EspiSmiClearStatus(reg, ESPI_SMI_TYPE[first])
      \/ /\ active # {} /\ pc' = "callback" /\ loc'.top = loc.top /\ loc'.type = first
         /\ UNCHANGED reg
  BY DEF Scan, Inv, Typing
<1>7. pc = "scan" /\ DOMAIN loc' = {"top", "type", "cur", "next"}
  BY DEF Scan, Inv, Typing, NoWalk
<1> HIDE DEF active, first
<1>8. /\ reg' \in RegisterFile
      /\ \A s \in Slaves, u \in Described : EnabledAt(reg, s, u) => EnabledAt(reg', s, u)
  <2>1. CASE reg' = reg
    BY <1>1, <2>1
  <2>2. CASE active # {} /\ reg' = EspiSmiClearStatus(reg, ESPI_SMI_TYPE[first])
    BY <1>1, <1>5, <2>2, AccessFacts, Zenon
  <2> QED BY <1>6, <2>1, <2>2
<1>9. Typing'
  BY <1>1, <1>2, <1>5, <1>6, <1>7, <1>8 DEF Inv, Typing
<1> QED BY <1>2, <1>8, <1>9, SameLists DEF Inv

\* The recovery writes link and flash registers, and keeps enable bits.
LEMMA RecoverKeeps ==
  ASSUME Inv, NEW s \in Slaves, Recover(s)
  PROVE  Inv'
<1> DEFINE linked == Update(reg, {s}, "LNKERR", {"LFET1S"}, {"SLCRR"})
           both   == Update(linked, {s}, "FCERR", {}, {"XNFES"})
           Keeps(g) == /\ g \in RegisterFile
                       /\ \A v \in Slaves, u \in Described : EnabledAt(reg, v, u) => EnabledAt(g, v, u)
<1>1. UNCHANGED <<db, counter, handle, loc>> /\ (pc' = "reset" \/ UNCHANGED pc)
  BY DEF Recover, WalkUnchanged
<1>2. reg' \in {reg, linked, both}
  BY DEF Recover
<1>3. /\ {"LNKERR", "FCERR"} \subseteq Registers
      /\ {"SLCRR"} \in SUBSET (W1C \cup Enables) /\ {"XNFES"} \in SUBSET (W1C \cup Enables)
      /\ "LFET1S" \notin Enables
  BY DEF Registers, W1C, Enables
<1>4. \A u \in Described : mEspiDescriptor[u].reg \in Registers /\ mEspiDescriptor[u].en \in Enables
  BY Descriptors
<1>5. Keeps(reg)
  BY DEF Inv, Typing
<1>6. Keeps(linked)
  <2>1. linked \in RegisterFile
    BY <1>3, <1>5, UpdateFacts, Zenon
  <2>2. \A b \in Enables : b \notin {"LFET1S"}
    BY <1>3
  <2>3. \A v \in Slaves, q \in Registers, b \in Enables : b \in reg[v][q] => b \in linked[v][q]
    BY <1>3, <1>5, <2>2, UpdateFacts, Zenon
  <2> QED BY <1>4, <2>1, <2>3 DEF EnabledAt
<1> HIDE DEF linked
<1>7. Keeps(both)
  <2>1. both \in RegisterFile
    BY <1>3, <1>6, UpdateFacts, Zenon
  <2>2. \A b : b \notin {}
    OBVIOUS
  <2>3. \A v \in Slaves, q \in Registers, b \in Enables : b \in linked[v][q] => b \in both[v][q]
    BY <1>3, <1>6, <2>2, UpdateFacts, Zenon
  <2> QED BY <1>4, <1>6, <2>1, <2>3 DEF EnabledAt
<1> HIDE DEF both
<1>8. Keeps(reg')
  BY <1>2, <1>5, <1>6, <1>7
<1>9. Typing'
  BY <1>1, <1>8 DEF Inv, Typing
<1> QED BY <1>1, <1>8, <1>9, SameLists DEF Inv

\* The status is cleared after the last child.
LEMMA CallbackReturnKeeps ==
  ASSUME Inv, CallbackReturn
  PROVE  Inv'
<1> DEFINE t == ESPI_SMI_TYPE[loc.type]
<1>1. pc = "callback" /\ t \in Described /\ reg \in RegisterFile /\ loc.top \in TopLevel \ {"EspiPmc"}
  BY DEF CallbackReturn, Inv, Typing
<1>2. UNCHANGED <<db, counter, handle>>
  BY DEF CallbackReturn, WalkUnchanged
<1>3. \/ UNCHANGED <<pc, reg>> /\ loc'.top = loc.top /\ loc'.type = loc.type
      \/ pc' = "scan" /\ loc'.top = loc.top /\ reg' = EspiSmiClearStatus(reg, t)
  BY DEF CallbackReturn, Inv, Typing
<1> HIDE DEF t
<1>4. DOMAIN loc' = {"top", "type", "cur", "next"}
  BY DEF CallbackReturn, Inv, Typing
<1>5. /\ reg' \in RegisterFile
      /\ \A s \in Slaves, u \in Described : EnabledAt(reg, s, u) => EnabledAt(reg', s, u)
  BY <1>1, <1>3, AccessFacts, Zenon
<1>6. Typing'
  BY <1>1, <1>2, <1>3, <1>4, <1>5 DEF Inv, Typing, t
<1> QED BY <1>2, <1>5, <1>6, SameLists DEF Inv

\* The steps that leave registers and lists alone.
LEMMA OthersKeep ==
  ASSUME Inv,
         \/ \E t \in Described : RegisterFails(t)
         \/ EspiSlaveSmiRegister
         \/ SmmReadyToLock
         \/ \E top \in TopLevel : EspiSmiCallback(top)
         \/ UNCHANGED vars
  PROVE  Inv'
<1>1. UNCHANGED <<db, counter, reg>> /\ handle \subseteq handle'
  BY DEF RegisterFails, EspiSlaveSmiRegister, SmmReadyToLock, EspiSmiCallback, WalkUnchanged, vars
<1>2. \A t \in AllTypes : TopOf(t) \in TopLevel
  BY SomeTopTypes
<1>3. handle' \subseteq TopLevel
  BY <1>2 DEF Inv, Typing, Described, TopLevel, RegisterFails, EspiSlaveSmiRegister, SmmReadyToLock,
              EspiSmiCallback, WalkUnchanged, vars
<1>4. \/ UNCHANGED <<pc, loc>>
      \/ /\ pc' = "scan" /\ loc'.top \in TopLevel \ {"EspiPmc"}
         /\ DOMAIN loc' = {"top", "type", "cur", "next"}
  BY DEF Inv, Typing, RegisterFails, EspiSlaveSmiRegister, SmmReadyToLock, EspiSmiCallback, NoWalk, vars
<1>5. Typing'
  BY <1>1, <1>3, <1>4 DEF Inv, Typing
<1> QED BY <1>1, <1>5, SameLists DEF Inv

LEMMA Inductive == Inv /\ [Next]_vars => Inv'
<1> SUFFICES ASSUME Inv, [Next]_vars PROVE Inv'
  OBVIOUS
<1>1. Types \subseteq Described /\ Types \cup {"LnkType1Err"} \subseteq Described
  BY EspiAssumption, SomeTypes DEF Described
<1>2. CASE \E s \in Slaves : \E t \in Types \cup {"LnkType1Err"} : Event(s, t)
  BY <1>1, <1>2, EventKeeps, Zenon
<1>3. CASE \E t \in Types : \E h \in Handle : Register(t, h)
  BY <1>1, <1>3, RegisterKeeps, Zenon
<1>4. CASE \E h \in Handle : EspiSmiUnRegister(h)
  BY <1>4, UnRegisterKeeps
<1>5. CASE Scan
  BY <1>5, ScanKeeps
<1>6. CASE \E s \in Slaves : Recover(s)
  BY <1>6, RecoverKeeps
<1>7. CASE CallbackReturn
  BY <1>7, CallbackReturnKeeps
<1>8. CASE \/ \E t \in Types : RegisterFails(t)
           \/ EspiSlaveSmiRegister
           \/ SmmReadyToLock
           \/ \E top \in TopLevel : EspiSmiCallback(top)
           \/ UNCHANGED vars
  BY <1>1, <1>8, OthersKeep, Zenon
<1> QED BY <1>2, <1>3, <1>4, <1>5, <1>6, <1>7, <1>8 DEF Next, Walk, Children

-----------------------------------------------------------------------------
(* EspiSmiRegister and EspiSmiUnRegister: a registered child can be        *)
(* reached, whatever was registered and unregistered before, in entry      *)
(* points, handlers and callbacks, and whatever the walk and the recovery  *)
(* of the link wrote to the registers.                                     *)
THEOREM ReachableAlways == Spec => []ChildrenReachable
<1>1. Init => Inv
  BY Initially
<1>2. Inv /\ [Next]_vars => Inv'
  BY Inductive
<1>3. Inv => ChildrenReachable
  BY DEF Inv
<1> QED BY <1>1, <1>2, <1>3, PTL DEF Spec

-----------------------------------------------------------------------------
(* No event is lost.                                                       *)

StatusAt(g, t) == mEspiDescriptor[t].sts \in g[0][mEspiDescriptor[t].reg]

\* Events outstanding have children, the one whose children are being called
\* is not outstanding, and the status of the others is still set.
Outstanding ==
  /\ owed \subseteq Described
  /\ \A t \in owed : db[t] # <<>>
  /\ pc = "callback" => ESPI_SMI_TYPE[loc.type] \notin owed
  /\ NoEventLost

LEMMA OutstandingAfter ==
  /\ NoEventLost <=> \A t \in owed \ {"FlashFatalErr"} : StatusAt(reg, t)
  /\ NoEventLost' <=> \A t \in owed' \ {"FlashFatalErr"} : StatusAt(reg', t)
BY DEF NoEventLost, StatusAt, Bits

\* A read-modify-write keeps a status bit that it masks out.
LEMMA UpdateKeepsStatus ==
  ASSUME NEW g \in RegisterFile, NEW ss, NEW r \in Registers, NEW mask, NEW set,
         NEW q \in Registers, NEW b \in W1C, b \in g[0][q], q = r => b \in mask /\ b \notin set
  PROVE  b \in Update(g, ss, r, mask, set)[0][q]
<1>1. 0 \in Slaves
  BY EspiAssumption DEF Slaves
<1>2. b \in AndThenOr(g[0][q], mask, set) \/ q # r
  BY DEF AndThenOr
<1>3. g[0] \in [Registers -> SUBSET (W1C \cup Enables)]
  BY <1>1 DEF RegisterFile
<1>4. Update(g, ss, r, mask, set)[0] =
        IF 0 \in ss THEN [g[0] EXCEPT ![r] = AndThenOr(g[0][r], mask, set)] ELSE g[0]
  BY <1>1 DEF Update
<1>5. Update(g, ss, r, mask, set)[0][q] =
        IF 0 \in ss /\ q = r THEN AndThenOr(g[0][r], mask, set) ELSE g[0][q]
  BY <1>3, <1>4
<1> QED BY <1>2, <1>5

\* The masks of the table: an event that shares a register with another one
\* masks out the status bit of that one.
LEMMA Masks ==
  \A t, u \in Described :
    t # u /\ mEspiDescriptor[t].reg = mEspiDescriptor[u].reg
      => mEspiDescriptor[u].sts \in mEspiDescriptor[t].mask \ {mEspiDescriptor[t].sts}
<1>1. Described = {"BiosWrProtect", "BiosWrReport", "PcNonFatalErr", "PcFatalErr", "VwNonFatalErr",
                   "VwFatalErr", "FlashNonFatalErr", "FlashFatalErr", "LnkType1Err"}
  BY SomeTypes DEF Described
<1> QED BY <1>1, SMT DEF mEspiDescriptor, Descriptor

LEMMA StatusFacts ==
  ASSUME NEW g \in RegisterFile, NEW t \in Described, NEW u \in Described, StatusAt(g, u)
  PROVE  /\ StatusAt(EspiSmiEnableSource(g, t), u)
         /\ StatusAt(EspiSmiDisableSource(g, t), u)
         /\ u # t => StatusAt(EspiSmiClearStatus(g, t), u)
<1> DEFINE d == mEspiDescriptor[t]
           c == mEspiDescriptor[u]
           e == IF t \in {"BiosWrProtect", "BiosWrReport", "LnkType1Err"} THEN {} ELSE {d.en}
           all == {s \in Slaves : HasRegister(s, d.reg)}
<1>1. /\ d.reg \in Registers /\ d.en \in Enables
      /\ c.reg \in Registers /\ c.sts \in W1C /\ c.sts \in g[0][c.reg]
  BY Descriptors DEF StatusAt
<1>2. c.sts \in W1C \cup e /\ c.sts \notin {d.en} /\ c.sts \notin {}
  BY <1>1 DEF W1C, Enables
<1>3. u # t /\ c.reg = d.reg => c.sts \in d.mask /\ c.sts \notin {d.sts}
  BY Masks
<1>4. /\ EspiSmiClearStatus(g, t) = Update(g, {0}, d.reg, d.mask, {d.sts})
      /\ EspiSmiEnableSource(g, t) = Update(g, all, d.reg, W1C, {d.en})
      /\ EspiSmiDisableSource(g, t) = Update(g, all, d.reg, W1C \cup e, {})
  BY DEF EspiSmiClearStatus, EspiSmiEnableSource, EspiSmiDisableSource
<1> HIDE DEF d, e, all
<1>5. c.sts \in Update(g, all, d.reg, W1C, {d.en})[0][c.reg]
  BY <1>1, <1>2, UpdateKeepsStatus, Zenon
<1>6. c.sts \in Update(g, all, d.reg, W1C \cup e, {})[0][c.reg]
  BY <1>1, <1>2, UpdateKeepsStatus, Zenon
<1>7. u # t => c.sts \in Update(g, {0}, d.reg, d.mask, {d.sts})[0][c.reg]
  BY <1>1, <1>3, UpdateKeepsStatus, Zenon
<1> QED BY <1>4, <1>5, <1>6, <1>7 DEF StatusAt

\* One step for each action.
LEMMA OutstandingInductive == Inv /\ Outstanding /\ [Next]_vars => Outstanding'
<1> SUFFICES ASSUME Inv, Outstanding, [Next]_vars PROVE Outstanding'
  OBVIOUS
<1>1. Types \subseteq Described /\ Types \cup {"LnkType1Err"} \subseteq Described /\ 0 \in Slaves
  BY EspiAssumption, SomeTypes DEF Described, Slaves
<1>2. reg \in RegisterFile /\ db \in [AllTypes -> Seq(Handle \cup {Default})] /\ Described \subseteq AllTypes
  BY DEF Inv, Typing, Described
<1>3. ASSUME NEW s \in Slaves, NEW t \in Described, Event(s, t)
      PROVE  Outstanding'
  <2> DEFINE d == mEspiDescriptor[t]
             b == {d.sts} \cup (IF t = "LnkType1Err" THEN {"SLCRR"} ELSE {})
  <2>1. /\ reg' = [reg EXCEPT ![s][d.reg] = @ \cup b]
        /\ UNCHANGED <<db, pc, loc>>
        /\ owed' = IF s = 0 /\ db[t] # <<>> /\ ~(pc = "callback" /\ ESPI_SMI_TYPE[loc.type] = t)
                   THEN owed \cup {t} ELSE owed
    BY <1>3 DEF Event
  <2>2. d.reg \in Registers
    BY Descriptors
  <2>3. d.sts \in b
    OBVIOUS
  <2> HIDE DEF b, d
  <2>4. /\ \A q \in Registers : reg[0][q] \subseteq reg'[0][q]
        /\ s = 0 => b \subseteq reg'[0][d.reg]
    BY <1>1, <1>2, <2>1, <2>2 DEF RegisterFile
  <2>5. \A u \in Described : StatusAt(reg, u) => StatusAt(reg', u)
    BY <2>4, Descriptors, Zenon DEF StatusAt
  <2>6. s = 0 => StatusAt(reg', t)
    BY <2>3, <2>4 DEF StatusAt, d
  <2> QED BY <2>1, <2>5, <2>6, OutstandingAfter DEF Outstanding
<1>4. ASSUME NEW t \in Described, NEW h \in Handle, Register(t, h)
      PROVE  Outstanding'
  <2>1. /\ reg' = EspiSmiEnableSource(EspiSmiClearStatus(reg, t), t)
        /\ db' = [db EXCEPT ![t] = Append(@, h)] /\ owed' = owed \ {t}
        /\ UNCHANGED <<pc, loc>>
    BY <1>4 DEF Register
  <2>2. EspiSmiClearStatus(reg, t) \in RegisterFile
    BY <1>2, AccessFacts, Zenon
  <2>3. \A u \in Described \ {t} : StatusAt(reg, u) => StatusAt(reg', u)
    BY <1>2, <2>1, <2>2, StatusFacts, Zenon
  <2>4. \A u \in Described \ {t} : db'[u] = db[u]
    BY <1>2, <2>1
  <2> QED BY <2>1, <2>3, <2>4, OutstandingAfter DEF Outstanding
<1>5. ASSUME NEW h \in Handle, EspiSmiUnRegister(h)
      PROVE  Outstanding'
  <2>1. PICK t \in AllTypes :
          /\ \E i \in DOMAIN db[t] : db' = [db EXCEPT ![t] = RemoveAt(@, i)]
          /\ reg' \in {reg, EspiSmiDisableSource(reg, t)}
          /\ owed' = IF db'[t] = <<>> THEN owed \ {t} ELSE owed
          /\ UNCHANGED <<pc, loc>>
    BY <1>5 DEF EspiSmiUnRegister
  <2>2. t \in Described
    BY <2>1 DEF Inv, Typing, Described
  <2>3. \A u \in Described : StatusAt(reg, u) => StatusAt(reg', u)
    BY <1>2, <2>1, <2>2, StatusFacts, Zenon
  <2>4. \A u \in Described \ {t} : db'[u] = db[u]
    BY <1>2, <2>1
  <2> QED BY <2>1, <2>3, <2>4, OutstandingAfter DEF Outstanding
<1>6. ASSUME Scan
      PROVE  Outstanding'
  <2> DEFINE active == {i \in Barrier[loc.top] : i >= loc.type /\ EspiSmiSourceIsActive(ESPI_SMI_TYPE[i])}
             t == ESPI_SMI_TYPE[CHOOSE a \in active : \A j \in active : a <= j]
  <2>1. loc.top \in TopLevel \ {"EspiPmc"}
    BY <1>6 DEF Scan, Inv, Typing
  <2>2. active \in SUBSET Nat
    BY <2>1 DEF TopLevel, Barrier
  <2>3. active # {} => t \in Described
    <3>1. active # {} => (CHOOSE a \in active : \A j \in active : a <= j) \in active
      BY <2>2, Minimum, Zenon
    <3> QED BY <2>1, <3>1, SomeTopTypes
  <2>4. /\ UNCHANGED db
        /\ \/ pc' = "os" /\ UNCHANGED <<reg, owed>>
           \/ /\ active # {} /\ db[t] = <<>> /\ pc' = pc /\ pc = "scan"
              /\ reg' = EspiSmiClearStatus(reg, t) /\ UNCHANGED owed
           \/ /\ active # {} /\ pc' = "callback" /\ ESPI_SMI_TYPE[loc'.type] = t
              /\ owed' = owed \ {t} /\ UNCHANGED reg
    BY <1>6 DEF Scan, WalkUnchanged, Inv, Typing
  <2> HIDE DEF active, t
  <2>5. CASE active # {} /\ db[t] = <<>> /\ reg' = EspiSmiClearStatus(reg, t) /\ UNCHANGED owed /\ pc' = "scan"
    <3>1. t \notin owed
      BY <2>5 DEF Outstanding
    <3>2. \A u \in Described \ {t} : StatusAt(reg, u) => StatusAt(reg', u)
      BY <1>2, <2>3, <2>5, StatusFacts, Zenon
    <3> QED BY <2>4, <2>5, <3>1, <3>2, OutstandingAfter DEF Outstanding
  <2>6. CASE UNCHANGED reg /\ owed' \subseteq owed /\ (pc' = "callback" => ESPI_SMI_TYPE[loc'.type] \notin owed')
    BY <2>4, <2>6, OutstandingAfter DEF Outstanding
  <2> QED BY <2>4, <2>5, <2>6
<1>7. ASSUME NEW s \in Slaves, Recover(s)
      PROVE  Outstanding'
  <2> DEFINE linked == Update(reg, {s}, "LNKERR", {"LFET1S"}, {"SLCRR"})
             both   == Update(linked, {s}, "FCERR", {}, {"XNFES"})
             flash  == {"FlashNonFatalErr", "FlashFatalErr"}
  <2>1. /\ UNCHANGED <<db, loc>> /\ owed' \subseteq owed /\ pc = "callback"
        /\ \/ pc' = "reset" /\ owed' = {}
           \/ pc' = pc /\ reg' = linked
           \/ pc' = pc /\ reg' = both /\ "FlashNonFatalErr" \notin owed'
    BY <1>7 DEF Recover, WalkUnchanged
  <2>2. /\ {"LNKERR", "FCERR"} \subseteq Registers /\ "LFET1S" \in W1C
        /\ {"SLCRR"} \in SUBSET (W1C \cup Enables)
    BY DEF Registers, W1C
  <2>3. \A u \in Described : /\ mEspiDescriptor[u].reg \in Registers /\ mEspiDescriptor[u].sts \in W1C
                             /\ mEspiDescriptor[u].reg = "LNKERR" => mEspiDescriptor[u].sts = "LFET1S"
                             /\ mEspiDescriptor[u].reg = "FCERR" => u \in flash
    <3>1. Described = {"BiosWrProtect", "BiosWrReport", "PcNonFatalErr", "PcFatalErr", "VwNonFatalErr",
                       "VwFatalErr", "FlashNonFatalErr", "FlashFatalErr", "LnkType1Err"}
      BY SomeTypes DEF Described
    <3> QED BY <3>1, SMT DEF mEspiDescriptor, Descriptor, Registers, W1C
  <2>4. linked \in RegisterFile
    BY <1>2, <2>2, UpdateFacts, Zenon
  <2>5. \A u \in Described : StatusAt(reg, u) => StatusAt(linked, u)
    <3>1. "LFET1S" \in {"LFET1S"} /\ "LFET1S" \notin {"SLCRR"}
      OBVIOUS
    <3> QED BY <1>2, <2>2, <2>3, <3>1, UpdateKeepsStatus, Zenon DEF StatusAt
  <2> HIDE DEF linked
  <2>6. \A u \in Described \ flash : StatusAt(linked, u) => StatusAt(both, u)
    BY <2>2, <2>3, <2>4, UpdateKeepsStatus, Zenon DEF StatusAt
  <2> HIDE DEF both
  <2> QED BY <2>1, <2>5, <2>6, OutstandingAfter DEF Outstanding
<1>8. ASSUME CallbackReturn
      PROVE  Outstanding'
  <2> DEFINE t == ESPI_SMI_TYPE[loc.type]
  <2>1. pc = "callback" /\ t \in Described /\ t \notin owed
    BY <1>8 DEF CallbackReturn, Inv, Typing, Outstanding
  <2>2. /\ UNCHANGED <<db, owed>>
        /\ \/ UNCHANGED <<pc, reg>> /\ loc'.type = loc.type
           \/ pc' = "scan" /\ reg' = EspiSmiClearStatus(reg, t)
    BY <1>8 DEF CallbackReturn, WalkUnchanged, Inv, Typing
  <2>3. \A u \in Described \ {t} : StatusAt(reg, u) => StatusAt(reg', u)
    BY <1>2, <2>1, <2>2, StatusFacts, Zenon
  <2> QED BY <2>1, <2>2, <2>3, OutstandingAfter DEF Outstanding
<1>9. ASSUME \/ \E t \in Types : RegisterFails(t)
             \/ EspiSlaveSmiRegister
             \/ SmmReadyToLock
             \/ \E top \in TopLevel : EspiSmiCallback(top)
             \/ UNCHANGED vars
      PROVE  Outstanding'
  <2>1. UNCHANGED <<db, reg, owed>> /\ (pc' = "scan" \/ UNCHANGED <<pc, loc>>)
    BY <1>9 DEF RegisterFails, EspiSlaveSmiRegister, SmmReadyToLock, EspiSmiCallback, WalkUnchanged, vars
  <2> QED BY <2>1, OutstandingAfter DEF Outstanding
<1>10. CASE \E s \in Slaves : \E t \in Types \cup {"LnkType1Err"} : Event(s, t)
  BY <1>1, <1>3, <1>10
<1>11. CASE \E t \in Types : \E h \in Handle : Register(t, h)
  BY <1>1, <1>4, <1>11
<1> QED BY <1>5, <1>6, <1>7, <1>8, <1>9, <1>10, <1>11 DEF Next, Walk, Children

(* EspiSmiClearStatus, EspiSmiEnableSource and EspiSmiDisableSource: the   *)
(* write-one-to-clear registers that events share lose no event that has   *)
(* children, whatever is registered, unregistered and recovered meanwhile; *)
(* fatal flash errors apart.                                               *)
THEOREM NoEventLostEver == Spec => []NoEventLost
<1>1. Init => Inv /\ Outstanding
  <2>1. Init => Outstanding
    BY DEF Init, Outstanding, NoEventLost
  <2> QED BY <2>1, Initially
<1>2. Inv /\ Outstanding /\ [Next]_vars => Inv' /\ Outstanding'
  BY Inductive, OutstandingInductive
<1>3. Outstanding => NoEventLost
  BY DEF Outstanding
<1> QED BY <1>1, <1>2, <1>3, PTL DEF Spec
=============================================================================
