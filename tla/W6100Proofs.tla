---------------------------- MODULE W6100Proofs ----------------------------
(***************************************************************************)
(* The driver object is safe for every number of hardware sockets, every   *)
(* set of configurations and any amount of use: DriverInv is an invariant, *)
(* and the ownership properties of the bus, of a transfer and of a slot    *)
(* and the freshness of the configuration follow from it.                  *)
(***************************************************************************)
EXTENDS W6100, TLAPS

-----------------------------------------------------------------------------
(* Slots.                                                                  *)

(* rearm, SocketBackend::reset and a tick make slots out of slots.         *)
LEMMA SlotTyped ==
    ASSUME NEW slot \in Slot, NEW st \in Status \cup {"Free"}
    PROVE  /\ Rearmed(slot) \in Slot
           /\ ResetSlot(slot) \in Slot
           /\ AfterTick(slot, st) \in Slot
  <1>1. FreeSlot \in Slot
    BY BoundsAssumption DEF FreeSlot, Slot
  <1>2. "Init" \in Status
    BY DEF Status
  <1>3. Rearmed(slot) \in Slot
    BY <1>2 DEF Rearmed, Slot
  <1>4. AfterTick(slot, st) \in Slot
    BY <1>1 DEF AfterTick, Slot
  <1>. QED
    BY <1>1, <1>3, <1>4 DEF ResetSlot

(* A handler or a call changes one slot and leaves the table a table.      *)
LEMMA SlotsTyped ==
    ASSUME TypeOK, NEW s \in Sockets, NEW slot \in Slot,
           sock' = [sock EXCEPT ![s] = slot]
    PROVE  /\ sock' \in [Sockets -> Slot]
           /\ sock'[s] = slot
           /\ \A r \in Sockets : r # s => sock'[r] = sock[r]
  BY DEF TypeOK

(* A tick of the state machine neither takes a free slot into use nor      *)
(* frees one whose release was not requested, and keeps the claim.         *)
LEMMA TickKeepsClaim ==
    ASSUME NEW slot \in Slot, NEW st \in TickStatus(slot)
    PROVE  /\ slot.st = "Free" => AfterTick(slot, st).st = "Free"
           /\ ~slot.release =>
                /\ AfterTick(slot, st).id = slot.id
                /\ ~AfterTick(slot, st).release
                /\ slot.st # "Free" => AfterTick(slot, st).st # "Free"
           /\ AfterTick(slot, st).st # "Free" =>
                AfterTick(slot, st).release = slot.release
  <1>1. slot.st = "Free" => st = "Free"
    BY DEF TickStatus
  <1>2. slot.st # "Free" => st # "Free"
    BY DEF TickStatus, TickTcp, TickUdp, TickClose, Finished, Closing, Terminal,
           Slot, Status
  <1>. QED
    BY <1>1, <1>2 DEF AfterTick, FreeSlot, Slot

(* The same for a slot's share of a reset.                                 *)
LEMMA ResetKeepsClaim ==
    ASSUME NEW slot \in Slot
    PROVE  /\ slot.st = "Free" => ResetSlot(slot).st = "Free"
           /\ ~slot.release =>
                /\ ResetSlot(slot).id = slot.id
                /\ ~ResetSlot(slot).release
                /\ slot.st # "Free" => ResetSlot(slot).st # "Free"
           /\ ResetSlot(slot).st # "Free" => ResetSlot(slot).release = slot.release
  BY DEF ResetSlot, Rearmed, FreeSlot, Slot

(* Such a change, made by a handler with the bus to itself, keeps the      *)
(* claims, the bus and the polling thread's view of the slots.             *)
LEMMA HandlerKeepsClaims ==
    ASSUME DriverInv, NEW i \in Sockets, NEW slot \in Slot,
           sock' = [sock EXCEPT ![i] = slot],
           sock[i].st = "Free" => slot.st = "Free",
           ~sock[i].release => /\ slot.id = sock[i].id
                               /\ ~slot.release
                               /\ sock[i].st # "Free" => slot.st # "Free",
           slot.st # "Free" => slot.release = sock[i].release,
           isr.pc \in {"rearm", "run"}, isr'.pc = isr.pc,
           UNCHANGED <<handle, main, busVars>>
    PROVE  Claims' /\ Bus' /\ Polling'
  <1>1. /\ sock'[i] = slot
        /\ \A r \in Sockets : r # i => sock'[r] = sock[r]
    BY SlotsTyped DEF DriverInv
  <1>2. SlotOwnership'
    BY <1>1 DEF DriverInv, Claims, SlotOwnership
  <1>3. Claims'
    BY <1>1, <1>2 DEF DriverInv, Claims
  <1>4. Bus'
    BY DEF DriverInv, Bus, BusQuiet, TransferOwner, busVars
  <1>5. Polling'
    BY <1>1 DEF DriverInv, Polling, busVars
  <1>. QED
    BY <1>3, <1>4, <1>5

-----------------------------------------------------------------------------
(* The invariant, action by action.                                        *)

(* A new driver: every slot free, no transfer, nothing configured.         *)
LEMMA DriverInit == Init => DriverInv
  <1>. SUFFICES ASSUME Init
                PROVE  DriverInv
    OBVIOUS
  <1>. USE NAssumption, BoundsAssumption DEF Init
  <1>1. TypeOK
    <2>1. FreeSlot \in Slot
      BY DEF FreeSlot, Slot
    <2>2. sock \in [Sockets -> Slot] /\ handle \in [Sockets -> 0..MaxOpens]
      BY <2>1
    <2>3. /\ main \in [op : MainOps, s : 0..N]
          /\ isr \in [pc : IsrPcs, i : 0..(N + 1)]
      BY DEF MainIdle, MainOps, IsrIdle, IsrPcs
    <2>4. sets \in 0..MaxSets /\ opens \in 0..MaxOpens /\ held \subseteq Cells
      OBVIOUS
    <2>. QED
      BY <2>2, <2>3, <2>4 DEF TypeOK
  <1>2. HeldCells /\ Staged
    BY DEF HeldCells, Staged, MainIdle
  <1>3. Claims
    BY DEF Claims, SlotOwnership, FreeSlot, MainIdle
  <1>4. Bus /\ Polling
    BY DEF Bus, BusQuiet, TransferOwner, Polling, IsrIdle, MainIdle
  <1>. QED
    BY <1>1, <1>2, <1>3, <1>4 DEF DriverInv

(* The end of a DMA transfer touches nothing but its flag.                 *)
LEMMA HardwareStep ==
    ASSUME DriverInv, TransferDone
    PROVE  DriverInv'
  <1>. USE DEF DriverInv, linkVars, cfgVars, busVars, poolVars, threadVars
  <1>1. Bus'
    BY DEF TransferDone, Bus, BusQuiet, TransferOwner
  <1>. QED
    BY <1>1 DEF TransferDone, TypeOK, HeldCells, Claims, SlotOwnership, Polling, Staged

(* A call of the thread begins by taking the one cell it is about.         *)
LEMMA CallStep ==
    ASSUME DriverInv, MainCall
    PROVE  DriverInv'
  <1>. USE NAssumption DEF DriverInv, linkVars, cfgVars, busVars, poolVars, MainIdle,
                           Device, ConfigCell, Cells
  <1>1. CASE SetConfigLock
    <2>1. TypeOK'
      <3>1. sets' \in 0..MaxSets
        BY <1>1, BoundsAssumption DEF SetConfigLock, TypeOK
      <3>. QED
        BY <1>1, <3>1 DEF SetConfigLock, TypeOK, MainOps
    <2>2. HeldCells'
      BY <1>1 DEF SetConfigLock, HeldCells
    <2>. QED
      BY <1>1, <2>1, <2>2 DEF SetConfigLock, Claims, SlotOwnership, Bus, BusQuiet,
                              TransferOwner, Polling, Staged
  <1>2. CASE OpenLock
    <2>1. TypeOK'
      BY <1>2 DEF OpenLock, TypeOK, MainOps
    <2>2. HeldCells'
      BY <1>2 DEF OpenLock, HeldCells, Sockets
    <2>. QED
      BY <1>2, <2>1, <2>2 DEF OpenLock, Claims, SlotOwnership, Bus, BusQuiet,
                              TransferOwner, Polling, Staged
  <1>3. CASE PollLock
    <2>1. TypeOK'
      BY <1>3 DEF PollLock, TypeOK, MainOps
    <2>2. HeldCells'
      BY <1>3 DEF PollLock, HeldCells
    <2>3. Polling'
      BY <1>3 DEF PollLock, Polling
    <2>. QED
      BY <1>3, <2>1, <2>2, <2>3 DEF PollLock, Claims, SlotOwnership, Bus, BusQuiet,
                                    TransferOwner, Staged
  <1>4. ASSUME NEW op \in {"status", "close", "reconnect", "drop"}, NEW s \in Sockets,
               HandleLock(op, s)
        PROVE  DriverInv'
    <2>1. TypeOK'
      BY <1>4 DEF HandleLock, TypeOK, MainOps, Sockets
    <2>2. HeldCells'
      BY <1>4 DEF HandleLock, HeldCells
    <2>3. Claims'
      BY <1>4 DEF HandleLock, Claims, SlotOwnership
    <2>. QED
      BY <1>4, <2>1, <2>2, <2>3 DEF HandleLock, Bus, BusQuiet, TransferOwner, Polling,
                                    Staged
  <1>. QED
    BY <1>1, <1>2, <1>3, <1>4 DEF MainCall

(* The thread in the middle of set_network_config or is_link_up.           *)
LEMMA ConfigCallStep ==
    ASSUME DriverInv,
           (\E c \in Configs : SetConfigStage(c)) \/ SetConfigDirty \/ PollUnlock
    PROVE  DriverInv'
  <1>. USE NAssumption DEF DriverInv, linkVars, cfgVars, busVars, poolVars, MainIdle
  <1>1. ASSUME NEW c \in Configs, SetConfigStage(c)
        PROVE  DriverInv'
    <2>1. TypeOK'
      BY <1>1 DEF SetConfigStage, TypeOK, MainOps
    <2>2. HeldCells'
      BY <1>1 DEF SetConfigStage, HeldCells
    <2>3. Staged'
      BY <1>1 DEF SetConfigStage, Staged
    <2>. QED
      BY <1>1, <2>1, <2>2, <2>3 DEF SetConfigStage, Claims, SlotOwnership, Bus,
                                    BusQuiet, TransferOwner, Polling
  <1>2. CASE SetConfigDirty
    <2>1. TypeOK'
      BY <1>2 DEF SetConfigDirty, TypeOK, MainOps
    <2>2. HeldCells'
      BY <1>2 DEF SetConfigDirty, HeldCells
    <2>3. Staged'
      BY <1>2 DEF SetConfigDirty, Staged
    <2>. QED
      BY <1>2, <2>1, <2>2, <2>3 DEF SetConfigDirty, Claims, SlotOwnership, Bus,
                                    BusQuiet, TransferOwner, Polling
  <1>3. CASE PollUnlock
    <2>1. TypeOK'
      BY <1>3 DEF PollUnlock, TypeOK, MainOps
    <2>2. HeldCells'
      BY <1>3 DEF PollUnlock, HeldCells
    <2>. QED
      BY <1>3, <2>1, <2>2 DEF PollUnlock, Claims, SlotOwnership, Bus, BusQuiet,
                              TransferOwner, Polling, Staged
  <1>. QED
    BY <1>1, <1>2, <1>3

(* open_* walks the slots under their cells and claims a free one: no      *)
(* handle and no transfer can be about a free slot.                        *)
LEMMA OpenStep ==
    ASSUME DriverInv,
           (\E proto \in {"Tcp", "Udp"} : OpenClaim(proto)) \/ OpenSkip
    PROVE  DriverInv'
  <1>. USE NAssumption DEF DriverInv, linkVars, cfgVars, busVars, poolVars, MainIdle
  <1>1. ASSUME NEW proto \in {"Tcp", "Udp"}, OpenClaim(proto)
        PROVE  DriverInv'
    <2>. DEFINE slot == [proto |-> proto, st |-> "Init", close |-> FALSE,
                         release |-> FALSE, id |-> opens + 1]
    <2>1. main.s \in Sockets
      BY <1>1 DEF OpenClaim, HeldCells
    <2>2. slot \in Slot /\ opens + 1 \in 1..MaxOpens
      BY <1>1, BoundsAssumption DEF OpenClaim, TypeOK, Slot, Status
    <2>3. sock' = [sock EXCEPT ![main.s] = slot]
      BY <1>1 DEF OpenClaim
    <2>4. /\ slot.st = "Init" /\ slot.release = FALSE /\ slot.id = opens + 1
      OBVIOUS
    <2>. HIDE DEF slot
    <2>5. /\ sock' \in [Sockets -> Slot] /\ sock'[main.s] = slot
          /\ \A r \in Sockets : r # main.s => sock'[r] = sock[r]
      BY <2>1, <2>2, <2>3, SlotsTyped
    <2>6. TypeOK'
      BY <1>1, <2>1, <2>2, <2>5 DEF OpenClaim, TypeOK, MainOps
    <2>7. HeldCells'
      BY <1>1 DEF OpenClaim, HeldCells
    <2>8. Claims'
      BY <1>1, <2>1, <2>2, <2>4, <2>5 DEF OpenClaim, Claims, SlotOwnership, TypeOK
    <2>9. Bus'
      BY <1>1, <2>1, <2>4, <2>5 DEF OpenClaim, Bus, BusQuiet, TransferOwner, TypeOK, BulkOp
    <2>. QED
      BY <1>1, <2>6, <2>7, <2>8, <2>9 DEF OpenClaim, Polling, Staged
  <1>2. CASE OpenSkip
    <2>1. main.s \in Sockets /\ held = {main.s}
      BY <1>2 DEF OpenSkip, HeldCells
    <2>2. main.s < N => main.s + 1 \in Sockets
      BY <2>1 DEF Sockets
    <2>3. TypeOK'
      <3>1. main' \in [op : MainOps, s : 0..N]
        BY <1>2, <2>2 DEF OpenSkip, TypeOK, MainOps, Sockets
      <3>2. held' \subseteq Cells
        BY <1>2, <2>1, <2>2 DEF OpenSkip, Cells, Sockets
      <3>. QED
        BY <1>2, <3>1, <3>2 DEF OpenSkip, TypeOK
    <2>4. HeldCells'
      BY <1>2, <2>1, <2>2 DEF OpenSkip, HeldCells
    <2>. QED
      BY <1>2, <2>3, <2>4 DEF OpenSkip, Claims, SlotOwnership, Bus, BusQuiet,
                              TransferOwner, Polling, Staged
  <1>. QED
    BY <1>1, <1>2

(* The calls of a handle are about its own claim: they do not free the     *)
(* slot or give it another claim, and only drop marks it for release.      *)
LEMMA HandleCallStep ==
    ASSUME DriverInv,
           StatusUnlock \/ CloseUnlock \/ ReconnectRearm \/ ReconnectClear \/ DropUnlock
    PROVE  DriverInv'
  <1>. USE NAssumption DEF DriverInv, linkVars, cfgVars, busVars, poolVars, MainIdle,
                           Unlock
  <1>. DEFINE s == main.s
              slot == sock'[s]
  <1>1. CASE StatusUnlock \/ ReconnectClear
    <2>1. TypeOK'
      BY <1>1 DEF StatusUnlock, ReconnectClear, TypeOK, MainOps
    <2>2. HeldCells'
      BY <1>1 DEF StatusUnlock, ReconnectClear, HeldCells
    <2>. QED
      BY <1>1, <2>1, <2>2 DEF StatusUnlock, ReconnectClear, Claims, SlotOwnership, Bus,
                              BusQuiet, TransferOwner, Polling, Staged
  <1>2. CASE CloseUnlock \/ ReconnectRearm \/ DropUnlock
    <2>1. /\ s \in Sockets /\ held = {s} /\ handle[s] # 0
          /\ sock[s] \in Slot /\ sock[s].st # "Free"
          /\ main.op \in {"close", "reconnect", "drop"}
      BY <1>2 DEF CloseUnlock, ReconnectRearm, DropUnlock, HeldCells, Claims,
                  SlotOwnership, TypeOK
    <2>2. /\ slot \in Slot /\ slot.st # "Free" /\ slot.id = sock[s].id
          /\ slot.release = (sock[s].release \/ main.op = "drop")
          /\ sock' = [sock EXCEPT ![s] = slot]
      <3>1. CASE CloseUnlock
        BY <3>1, <2>1 DEF CloseUnlock, TypeOK, Slot
      <3>2. CASE ReconnectRearm
        BY <3>2, <2>1, SlotTyped, ZenonT(30) DEF ReconnectRearm, Rearmed, TypeOK, Slot
      <3>3. CASE DropUnlock
        BY <3>3, <2>1 DEF DropUnlock, TypeOK, Slot
      <3>. QED
        BY <1>2, <3>1, <3>2, <3>3
    <2>3. handle' = IF main.op = "drop" THEN [handle EXCEPT ![s] = 0] ELSE handle
      BY <1>2 DEF CloseUnlock, ReconnectRearm, DropUnlock
    <2>4. \/ main.op = "reconnect" /\ main' = [main EXCEPT !.op = "clear"] /\ held' = held
          \/ main.op # "reconnect" /\ main' = MainIdle /\ held' = held \ {s}
      BY <1>2 DEF CloseUnlock, ReconnectRearm, DropUnlock
    <2>5. UNCHANGED <<linkVars, cfgVars, busVars, opens, isr>>
      BY <1>2 DEF CloseUnlock, ReconnectRearm, DropUnlock
    <2>. HIDE DEF slot
    <2>6. /\ sock' \in [Sockets -> Slot] /\ sock'[s] = slot
          /\ \A r \in Sockets : r # s => sock'[r] = sock[r]
      BY <2>1, <2>2, SlotsTyped
    <2>7. TypeOK'
      <3>1. main' \in [op : MainOps, s : 0..N]
        BY <2>4 DEF TypeOK, MainOps
      <3>2. held' \subseteq Cells
        BY <2>4 DEF TypeOK
      <3>3. handle' \in [Sockets -> 0..MaxOpens]
        <4>1. handle \in [Sockets -> 0..MaxOpens] /\ 0 \in 0..MaxOpens
          BY BoundsAssumption DEF TypeOK
        <4>2. CASE main.op = "drop"
          BY <2>3, <4>1, <4>2
        <4>3. CASE main.op # "drop"
          BY <2>3, <4>1, <4>3
        <4>. QED
          BY <4>2, <4>3
      <3>. QED
        BY <2>5, <2>6, <3>1, <3>2, <3>3 DEF TypeOK
    <2>8. HeldCells'
      BY <2>1, <2>4 DEF HeldCells, TypeOK
    <2>9. Claims'
      <3>1. /\ \A r \in Sockets : r # s => handle'[r] = handle[r]
            /\ main.op = "drop" => handle'[s] = 0
            /\ main.op # "drop" => handle'[s] = handle[s]
        BY <2>1, <2>3 DEF TypeOK
      <3>2. main'.op \in {"idle", "clear"} /\ (main'.op = "clear" => main'.s = s /\ main.op # "drop")
        BY <2>4 DEF TypeOK
      <3>. HIDE DEF s
      <3>3. SlotOwnership'
        <4>. SUFFICES ASSUME NEW r \in Sockets
                      PROVE  /\ handle'[r] # 0 => sock'[r].st # "Free" /\ sock'[r].id = handle'[r]
                             /\ handle'[r] = 0 /\ sock'[r].st # "Free" => sock'[r].release
          BY DEF SlotOwnership
        <4>1. CASE r = s
          BY <2>1, <2>2, <2>6, <3>1, <4>1 DEF Claims, SlotOwnership
        <4>2. CASE r # s
          BY <2>6, <3>1, <4>2 DEF Claims, SlotOwnership
        <4>. QED
          BY <4>1, <4>2
      <3>4. \A r \in Sockets : handle'[r] # 0 => ~sock'[r].release
        BY <2>1, <2>2, <2>6, <3>1 DEF Claims
      <3>. QED
        BY <2>1, <3>1, <3>2, <3>3, <3>4 DEF Claims
    <2>10. Bus'
      BY <2>1, <2>2, <2>5, <2>6 DEF Bus, BusQuiet, TransferOwner
    <2>11. Polling'
      BY <2>1, <2>4, <2>5 DEF Polling, TypeOK
    <2>12. Staged'
      BY <2>1, <2>5 DEF Staged
    <2>. QED
      BY <2>7, <2>8, <2>9, <2>10, <2>11, <2>12
  <1>. QED
    BY <1>1, <1>2

(* The interrupts: a tick starts service, and a completed transfer is      *)
(* finished before it.  The thread cannot be polling the link while a      *)
(* transfer is in flight, for then some slot is in use.                    *)
LEMMA InterruptStep ==
    ASSUME DriverInv, Tick \/ DmaComplete
    PROVE  DriverInv'
  <1>. USE DEF DriverInv, linkVars, cfgVars, busVars, poolVars, threadVars, IsrIdle
  <1>0. isr' = [pc |-> "service", i |-> 0] /\ isr' \in [pc : IsrPcs, i : 0..(N + 1)]
    BY NAssumption DEF Tick, DmaComplete, IsrPcs
  <1>1. CASE Tick
    <2>1. TypeOK'
      BY <1>0, <1>1 DEF Tick, TypeOK
    <2>. QED
      BY <1>0, <1>1, <2>1 DEF Tick, HeldCells, Claims, SlotOwnership, Bus, BusQuiet,
                              TransferOwner, Polling, Staged
  <1>2. CASE DmaComplete
    <2>1. TypeOK'
      BY <1>0, <1>2 DEF DmaComplete, TypeOK
    <2>2. Bus'
      <3>1. dmaIrq' => dma' = "InFlight"
        BY <1>2 DEF DmaComplete, Bus
      <3>2. bulk' = None
        BY <1>2 DEF DmaComplete
      <3>. QED
        BY <1>0, <3>1, <3>2 DEF Bus, BusQuiet, TransferOwner
    <2>3. Polling'
      <3>1. bulk.idx \in Sockets
        BY <1>2 DEF DmaComplete, TypeOK, BulkOp
      <3>2. PollsLink # "any" => main.op # "poll"
        BY <1>2, <3>1 DEF DmaComplete, Polling, Bus, TransferOwner
      <3>3. main.op # "poll" => Device \notin held
        BY NAssumption DEF HeldCells, Device, ConfigCell, Sockets
      <3>. QED
        BY <1>2, <3>2, <3>3 DEF DmaComplete, Polling
    <2>. QED
      BY <1>2, <2>1, <2>2, <2>3 DEF DmaComplete, HeldCells, Claims, SlotOwnership, Staged
  <1>. QED
    BY <1>1, <1>2

(* service up to the point where the sockets are driven, and its returns.  *)
LEMMA ServiceStep ==
    ASSUME DriverInv,
           \/ ServiceDefers \/ ServiceFails \/ ResetChip
           \/ \E up \in BOOLEAN : ServiceReadsLink(up)
           \/ ResetFails \/ ResetDone \/ ServiceConfig \/ ServiceConfigFails
    PROVE  DriverInv'
  <1>. USE DEF DriverInv, linkVars, cfgVars, busVars, poolVars, threadVars, IsrIdle, Return
  <1>1. CASE ServiceDefers \/ ServiceFails \/ ResetFails
    <2>1. TypeOK'
      BY <1>1, NAssumption DEF ServiceDefers, ServiceFails, ResetFails, TypeOK, IsrPcs
    <2>. QED
      BY <1>1, <2>1 DEF ServiceDefers, ServiceFails, ResetFails, HeldCells, Claims,
                        SlotOwnership, Bus, BusQuiet, TransferOwner, Polling, Staged
  <1>2. ASSUME NEW up \in BOOLEAN, ServiceReadsLink(up)
        PROVE  DriverInv'
    <2>1. TypeOK'
      <3>1. isr' \in [pc : IsrPcs, i : 0..(N + 1)]
        BY <1>2, NAssumption DEF ServiceReadsLink, IsrPcs
      <3>. QED
        BY <1>2, <3>1 DEF ServiceReadsLink, TypeOK
    <2>2. Bus'
      BY <1>2 DEF ServiceReadsLink, Bus, BusQuiet, TransferOwner
    <2>. QED
      BY <1>2, <2>1, <2>2 DEF ServiceReadsLink, HeldCells, Claims, SlotOwnership,
                              Polling, Staged
  <1>3. CASE ResetChip
    <2>1. TypeOK'
      <3>1. isr' \in [pc : IsrPcs, i : 0..(N + 1)]
        BY <1>3, NAssumption DEF ResetChip, IsrPcs
      <3>. QED
        BY <1>3, <3>1 DEF ResetChip, TypeOK
    <2>2. Bus'
      BY <1>3 DEF ResetChip, Bus, BusQuiet, TransferOwner
    <2>. QED
      BY <1>3, <2>1, <2>2 DEF ResetChip, HeldCells, Claims, SlotOwnership, Polling,
                              Staged
  <1>4. CASE ResetDone
    <2>1. TypeOK'
      <3>1. isr' \in [pc : IsrPcs, i : 0..(N + 1)]
        BY <1>4, NAssumption DEF ResetDone, IsrPcs
      <3>2. dirty' \in BOOLEAN /\ torn' \in BOOLEAN
        BY <1>4 DEF ResetDone
      <3>. QED
        BY <1>4, <3>1, <3>2 DEF ResetDone, TypeOK
    <2>2. Staged'
      BY <1>4 DEF ResetDone, Staged
    <2>. QED
      BY <1>4, <2>1, <2>2 DEF ResetDone, HeldCells, Claims, SlotOwnership, Bus,
                              BusQuiet, TransferOwner, Polling
  <1>5. CASE ServiceConfig
    <2>1. TypeOK'
      <3>1. isr' \in [pc : IsrPcs, i : 0..(N + 1)]
        BY <1>5, NAssumption DEF ServiceConfig, IsrPcs
      <3>2. net' \in Configs \cup {None, Partial} /\ dirty' \in BOOLEAN
        BY <1>5 DEF ServiceConfig, TypeOK
      <3>. QED
        BY <1>5, <3>1, <3>2 DEF ServiceConfig, TypeOK
    <2>2. Staged'
      BY <1>5 DEF ServiceConfig, Staged
    <2>3. Bus'
      BY <1>5 DEF ServiceConfig, Bus, BusQuiet, TransferOwner
    <2>. QED
      BY <1>5, <2>1, <2>2, <2>3 DEF ServiceConfig, HeldCells, Claims, SlotOwnership,
                                    Polling
  <1>6. CASE ServiceConfigFails
    <2>1. TypeOK'
      BY <1>6, NAssumption DEF ServiceConfigFails, TypeOK, IsrPcs
    <2>. QED
      BY <1>6, <2>1 DEF ServiceConfigFails, HeldCells, Claims, SlotOwnership, Bus,
                        BusQuiet, TransferOwner, Polling, Staged
  <1>. QED
    BY <1>1, <1>2, <1>3, <1>4, <1>5, <1>6

(* The handler moves on to the next slot, or past the last one.            *)
LEMMA NextSlot ==
    ASSUME NEW h \in [pc : IsrPcs, i : 0..(N + 1)], h.i \in Sockets
    PROVE  LET g == [h EXCEPT !.i = @ + 1]
           IN  g \in [pc : IsrPcs, i : 0..(N + 1)] /\ g.pc = h.pc
  BY NAssumption DEF Sockets

(* A walk over the slots: the share of reset and of run in one of them.    *)
LEMMA WalkStep ==
    ASSUME DriverInv,
           \/ ResetSocket \/ RunSkips \/ RunDone
           \/ \E st \in Status \cup {"Free"} : RunSocket(st)
           \/ RunStartsBulk
    PROVE  DriverInv'
  <1>. USE DEF DriverInv, linkVars, cfgVars, busVars, poolVars, threadVars, IsrIdle, Return
  <1>1. CASE ResetSocket
    <2>. DEFINE i == isr.i
                slot == ResetSlot(sock[i])
    <2>1. /\ i \in Sockets /\ sock[i] \in Slot
          /\ sock' = [sock EXCEPT ![i] = slot]
      BY <1>1 DEF ResetSocket, TypeOK
    <2>2. slot \in Slot
      BY <2>1, SlotTyped DEF Status
    <2>3. isr' \in [pc : IsrPcs, i : 0..(N + 1)] /\ isr'.pc = isr.pc
      <3>1. isr' = [isr EXCEPT !.i = @ + 1]
        BY <1>1 DEF ResetSocket
      <3>2. isr \in [pc : IsrPcs, i : 0..(N + 1)] /\ isr.i \in Sockets
        BY <2>1 DEF TypeOK
      <3>. QED
        BY ONLY <3>1, <3>2, NextSlot
    <2>4. TypeOK'
      <3>1. sock' \in [Sockets -> Slot]
        BY <2>1, <2>2, SlotsTyped
      <3>. QED
        BY <1>1, <2>3, <3>1 DEF ResetSocket, TypeOK
    <2>5. Claims' /\ Bus' /\ Polling'
      <3>1. /\ sock[i].st = "Free" => slot.st = "Free"
            /\ ~sock[i].release =>
                 slot.id = sock[i].id /\ ~slot.release /\ (sock[i].st # "Free" => slot.st # "Free")
            /\ slot.st # "Free" => slot.release = sock[i].release
        BY <2>1, ResetKeepsClaim
      <3>2. isr.pc \in {"rearm", "run"} /\ UNCHANGED <<handle, main, busVars>>
        BY <1>1 DEF ResetSocket
      <3>. HIDE DEF slot
      <3>. QED
        BY <2>1, <2>2, <2>3, <3>1, <3>2, HandlerKeepsClaims
    <2>. QED
      BY <1>1, <2>4, <2>5 DEF ResetSocket, HeldCells, Staged
  <1>2. CASE RunSkips
    <2>1. isr.i \in Sockets /\ isr' = [isr EXCEPT !.i = @ + 1]
      BY <1>2 DEF RunSkips
    <2>2. isr' \in [pc : IsrPcs, i : 0..(N + 1)] /\ isr'.pc = isr.pc
      <3>1. isr \in [pc : IsrPcs, i : 0..(N + 1)]
        BY DEF TypeOK
      <3>. QED
        BY ONLY <2>1, <3>1, NextSlot
    <2>3. TypeOK'
      BY <1>2, <2>2 DEF RunSkips, TypeOK
    <2>. QED
      BY <1>2, <2>2, <2>3 DEF RunSkips, HeldCells, Claims, SlotOwnership, Bus, BusQuiet,
                              TransferOwner, Polling, Staged
  <1>3. CASE RunDone
    <2>1. TypeOK'
      BY <1>3, NAssumption DEF RunDone, TypeOK, IsrPcs
    <2>. QED
      BY <1>3, <2>1 DEF RunDone, HeldCells, Claims, SlotOwnership, Bus, BusQuiet,
                        TransferOwner, Polling, Staged
  <1>4. ASSUME NEW st \in Status \cup {"Free"}, RunSocket(st)
        PROVE  DriverInv'
    <2>. DEFINE i == isr.i
                slot == AfterTick(sock[i], st)
    <2>1. /\ i \in Sockets /\ sock[i] \in Slot /\ st \in TickStatus(sock[i])
          /\ sock' = [sock EXCEPT ![i] = slot]
      BY <1>4 DEF RunSocket, TypeOK
    <2>2. slot \in Slot
      BY <2>1, SlotTyped
    <2>3. isr' \in [pc : IsrPcs, i : 0..(N + 1)] /\ isr'.pc = isr.pc
      <3>1. isr' = [isr EXCEPT !.i = @ + 1]
        BY <1>4 DEF RunSocket
      <3>2. isr \in [pc : IsrPcs, i : 0..(N + 1)] /\ isr.i \in Sockets
        BY <2>1 DEF TypeOK
      <3>. QED
        BY ONLY <3>1, <3>2, NextSlot
    <2>4. TypeOK'
      <3>1. sock' \in [Sockets -> Slot]
        BY <2>1, <2>2, SlotsTyped
      <3>. QED
        BY <1>4, <2>3, <3>1 DEF RunSocket, TypeOK
    <2>5. Claims' /\ Bus' /\ Polling'
      <3>1. /\ sock[i].st = "Free" => slot.st = "Free"
            /\ ~sock[i].release =>
                 slot.id = sock[i].id /\ ~slot.release /\ (sock[i].st # "Free" => slot.st # "Free")
            /\ slot.st # "Free" => slot.release = sock[i].release
        BY <2>1, TickKeepsClaim
      <3>2. isr.pc \in {"rearm", "run"} /\ UNCHANGED <<handle, main, busVars>>
        BY <1>4 DEF RunSocket
      <3>. HIDE DEF slot
      <3>. QED
        BY <2>1, <2>2, <2>3, <3>1, <3>2, HandlerKeepsClaims
    <2>. QED
      BY <1>4, <2>4, <2>5 DEF RunSocket, HeldCells, Staged
  <1>5. CASE RunStartsBulk
    <2>1. isr.i \in Sockets /\ sock[isr.i] \in Slot /\ sock[isr.i].st # "Free"
      BY <1>5 DEF RunStartsBulk, TypeOK
    <2>2. bulk' \in BulkOp /\ bulk' # None
      BY <1>5, <2>1, NoneAssumption DEF RunStartsBulk, BulkOp, Slot
    <2>3. isr' \in [pc : IsrPcs, i : 0..(N + 1)]
      BY <1>5, NAssumption DEF RunStartsBulk, IsrPcs
    <2>4. TypeOK'
      BY <1>5, <2>2, <2>3 DEF RunStartsBulk, TypeOK
    <2>5. Bus'
      BY <1>5, <2>1, <2>2 DEF RunStartsBulk, Bus, BusQuiet, TransferOwner
    <2>6. Polling'
      BY <1>5, <2>2 DEF RunStartsBulk, Polling
    <2>. QED
      BY <1>5, <2>4, <2>5, <2>6 DEF RunStartsBulk, HeldCells, Claims, SlotOwnership,
                                    Staged
  <1>. QED
    BY <1>1, <1>2, <1>3, <1>4, <1>5

(* Every step keeps the invariant.                                         *)
LEMMA DriverStep == DriverInv /\ [Next]_vars => DriverInv'
  <1>. SUFFICES ASSUME DriverInv, [Next]_vars
                PROVE  DriverInv'
    OBVIOUS
  <1>1. CASE Next
    <2>1. CASE MainStep
      BY <2>1, ConfigCallStep, OpenStep, HandleCallStep DEF MainStep
    <2>2. CASE Handler
      BY <2>2, ServiceStep, WalkStep DEF Handler
    <2>. QED
      BY <1>1, <2>1, <2>2, HardwareStep, CallStep, InterruptStep DEF Next
  <1>2. CASE UNCHANGED vars
    BY <1>2 DEF vars, linkVars, cfgVars, busVars, poolVars, threadVars, DriverInv,
                TypeOK, HeldCells, Claims, SlotOwnership, Bus, BusQuiet, TransferOwner,
                Polling, Staged
  <1>. QED
    BY <1>1, <1>2

-----------------------------------------------------------------------------
(* The inductive invariant of the driver: what a cell, a handle, the       *)
(* marker of the transfer in flight and the staged configuration stand     *)
(* for, at every step of every handler and every call.                     *)
THEOREM DriverInvariance == Spec => []DriverInv
  BY DriverInit, DriverStep, PTL DEF Spec

(* service, reset and run never work on the registers over a transfer in   *)
(* flight, and never start a second one.                                   *)
THEOREM BusQuietInvariance == Spec => []BusQuiet
  <1>1. DriverInv => BusQuiet
    BY DEF DriverInv, Bus
  <1>. QED
    BY <1>1, DriverInvariance, PTL

(* The slot a transfer was started for still has the claim it was started  *)
(* for when dma_complete delivers the bytes by index, although             *)
(* dma_complete never looks at the slot's cell or its owner.               *)
THEOREM TransferOwnerInvariance == Spec => []TransferOwner
  <1>1. DriverInv => TransferOwner
    BY DEF DriverInv, Bus
  <1>. QED
    BY <1>1, DriverInvariance, PTL

(* No slot is lost or shared: a live handle finds its own claim, and a     *)
(* slot in use without a handle is marked for release.                     *)
THEOREM SlotOwnershipInvariance == Spec => []SlotOwnership
  <1>1. DriverInv => SlotOwnership
    BY DEF DriverInv, Claims
  <1>. QED
    BY <1>1, DriverInvariance, PTL

(* Unless a reset stopped half-way, a configuration that is not marked for *)
(* re-application is the one on the chip.                                  *)
THEOREM ConfigFreshInvariance == Spec => []ConfigFresh
  <1>1. DriverInv => ConfigFresh
    BY DEF DriverInv, Staged, ConfigFresh
  <1>. QED
    BY <1>1, DriverInvariance, PTL

(* If the application thread calls is_link_up only while no socket is      *)
(* open, or never, then between handlers a transfer is recorded exactly    *)
(* while one owns the bus.  W6100Poll.cfg shows what the hypothesis keeps  *)
(* out.                                                                    *)
THEOREM BusOwnershipInvariance ==
    ASSUME PollsLink # "any"
    PROVE  Spec => []BusOwnership
  <1>1. DriverInv => BusOwnership
    BY DEF DriverInv, Polling, BusOwnership
  <1>. QED
    BY <1>1, DriverInvariance, PTL

-----------------------------------------------------------------------------
(* On a bus that does not fail, the state machine of a slot whose handle   *)
(* is gone is closed or on its way there.                                  *)

(* A tick keeps it so.                                                     *)
LEMMA TickCloses ==
    ASSUME ~SpiFaults, NEW slot \in Slot, NEW st \in TickStatus(slot), slot.release,
           slot.close \/ slot.st \in Closing \cup Terminal,
           AfterTick(slot, st).release
    PROVE  AfterTick(slot, st).st \in Closing \cup Terminal
  <1>1. slot.st = "Free" => st = "Free"
    BY DEF TickStatus
  <1>2. slot.st # "Free" => st \in Closing \cup Terminal
    BY DEF TickStatus, TickTcp, TickUdp, TickClose, Finished, Closing, Terminal, Slot,
           Status
  <1>. QED
    BY <1>1, <1>2 DEF AfterTick, FreeSlot, Slot

LEMMA ReleaseStep ==
    ASSUME ~SpiFaults, DriverInv, ReleaseCloses, [Next]_vars
    PROVE  ReleaseCloses'
  <1>. USE DEF DriverInv
  <1>1. CASE UNCHANGED sock
    BY <1>1 DEF ReleaseCloses
  <1>2. ASSUME NEW i \in Sockets, NEW slot,
               sock' = [sock EXCEPT ![i] = slot],
               slot.release => slot.close \/ slot.st \in Closing \cup Terminal
        PROVE  ReleaseCloses'
    BY <1>2 DEF ReleaseCloses, TypeOK
  <1>3. ASSUME NEW proto \in {"Tcp", "Udp"}, OpenClaim(proto)
        PROVE  ReleaseCloses'
    BY <1>2, <1>3 DEF OpenClaim, HeldCells
  <1>4. CASE CloseUnlock
    <2>1. main.s \in Sockets /\ sock[main.s] \in Slot
      BY <1>4 DEF CloseUnlock, HeldCells, TypeOK
    <2>2. sock' = [sock EXCEPT ![main.s] = [sock[main.s] EXCEPT !.close = @ \/ sock[main.s].st # "Free"]]
      BY <1>4 DEF CloseUnlock
    <2>. QED
      BY <1>2, <2>1, <2>2 DEF ReleaseCloses, Slot
  <1>5. CASE ReconnectRearm
    <2>1. main.s \in Sockets /\ sock[main.s] \in Slot /\ ~sock[main.s].release
      BY <1>5 DEF ReconnectRearm, HeldCells, TypeOK, Claims
    <2>2. ~Rearmed(sock[main.s]).release
      BY <2>1 DEF Rearmed, Slot
    <2>. QED
      BY <1>2, <1>5, <2>1, <2>2 DEF ReconnectRearm
  <1>6. CASE DropUnlock
    <2>1. main.s \in Sockets /\ sock[main.s] \in Slot
      BY <1>6 DEF DropUnlock, HeldCells, TypeOK
    <2>2. sock'[main.s].close /\ \A r \in Sockets : r # main.s => sock'[r] = sock[r]
      BY <1>6, <2>1 DEF DropUnlock, TypeOK, Slot
    <2>. QED
      BY <2>2 DEF ReleaseCloses
  <1>7. CASE ResetSocket
    <2>1. isr.i \in Sockets /\ sock[isr.i] \in Slot
      BY <1>7 DEF ResetSocket, TypeOK
    <2>2. ~ResetSlot(sock[isr.i]).release
      BY <2>1 DEF ResetSlot, FreeSlot, Rearmed, Slot
    <2>. QED
      BY <1>2, <1>7, <2>1, <2>2 DEF ResetSocket
  <1>8. ASSUME NEW st \in Status \cup {"Free"}, RunSocket(st)
        PROVE  ReleaseCloses'
    <2>. DEFINE slot == AfterTick(sock[isr.i], st)
    <2>1. /\ isr.i \in Sockets /\ sock[isr.i] \in Slot /\ st \in TickStatus(sock[isr.i])
          /\ sock' = [sock EXCEPT ![isr.i] = slot]
      BY <1>8 DEF RunSocket, TypeOK
    <2>2. slot.release => sock[isr.i].release
      BY <2>1 DEF AfterTick, FreeSlot, Slot
    <2>3. slot.release => slot.st \in Closing \cup Terminal
      BY <2>1, <2>2, TickCloses DEF ReleaseCloses
    <2>. HIDE DEF slot
    <2>. QED
      BY <1>2, <2>1, <2>3
  <1>. USE DEF linkVars, cfgVars, busVars, poolVars, threadVars
  <1>9. CASE TransferDone \/ MainCall \/ Tick \/ DmaComplete \/ UNCHANGED vars
    BY <1>1, <1>9 DEF TransferDone, MainCall, SetConfigLock,
                      OpenLock, PollLock, HandleLock, Tick, DmaComplete, vars
  <1>10. CASE MainStep
    BY <1>1, <1>3, <1>4, <1>5, <1>6, <1>10 DEF MainStep, SetConfigStage, SetConfigDirty,
         OpenSkip, StatusUnlock, ReconnectClear, PollUnlock
  <1>11. CASE Handler
    BY <1>1, <1>7, <1>8, <1>11 DEF Handler, ServiceDefers, ServiceFails, ServiceReadsLink,
         ResetChip, ResetFails, ResetDone, ServiceConfig, ServiceConfigFails, RunSkips,
         RunDone, RunStartsBulk
  <1>. QED
    BY <1>9, <1>10, <1>11 DEF Next

(* A slot whose handle is gone is on its way back to the pool: its close   *)
(* is requested, under way or over.  The hypothesis is that of HalSpi,     *)
(* whose transfers cannot fail: a fault would leave the status as it was   *)
(* after the request has been taken.                                       *)
THEOREM ReleaseClosesInvariance ==
    ASSUME ~SpiFaults
    PROVE  Spec => []ReleaseCloses
  <1>1. Init => ReleaseCloses
    BY DEF Init, ReleaseCloses, FreeSlot
  <1>2. DriverInv /\ ReleaseCloses /\ [Next]_vars => ReleaseCloses'
    BY ReleaseStep
  <1>. QED
    BY <1>1, <1>2, DriverInvariance, PTL DEF Spec

=============================================================================
