------------------------------ MODULE MdioShim ------------------------------
(***************************************************************************)
(* The MDIO bus shim of the GPY2xx utility                                 *)
(* (src/gphy_fw_update/src/utility/fmx_auto/gpy2xx_mdio.c).                *)
(*                                                                         *)
(* Each process is one caller of gpy211_mdio_read / gpy211_mdio_write      *)
(* (in the repository: one gpy2xx_cli invocation, which installs these     *)
(* two functions as phy.mdiobus_read/mdiobus_write).  A call is a chain    *)
(* of blocking ioctls on the switch driver: one clause query, then one     *)
(* to four register transfers.  Every ioctl is one atomic step, so the     *)
(* transfers of different callers interleave.                              *)
(*                                                                         *)
(* The environment is the driver and the PHY behind it:                    *)
(*  - the bus clause the driver uses for the PHY, which a driver           *)
(*    re-initialisation may flip;                                          *)
(*  - the PHY's register cells: Clause-22 registers, the MMD registers,    *)
(*    and the indirect-access latches MMDCTRL (function + device) and the  *)
(*    per-device MMD address latch written through MMDDATA;               *)
(*  - transport errors: any ioctl may fail (bounded), with no effect.      *)
(***************************************************************************)
EXTENDS Integers, FiniteSets, Bitwise

CONSTANTS
  Procs,         \* callers of the shim
  Devs,          \* MMD device types carried by Clause-45 register ids
  Words,         \* register offsets and data words (small 16-bit values)
  PlainIds,      \* plain (untagged) Clause-22 register ids callers pass
  MaxCalls,      \* calls each caller makes before its process exits
  MaxFaults,     \* transport errors the driver may report in a behaviour
  QueryCanFail,  \* TRUE: the clause-query ioctl may be among the failing ones
  MaxReinits,    \* driver re-initialisations that flip the bus clause
  InitModes,     \* bus clauses the driver may start in
  Serialized,    \* TRUE: callers are serialised per controller (spec section 5)
  None           \* model value: no owner / no cell

ASSUME /\ Devs \subseteq 1..31
       /\ Words \subseteq 0..12 /\ PlainIds \subseteq Words
       /\ MaxCalls \in Nat /\ MaxFaults \in Nat /\ MaxReinits \in Nat
       /\ InitModes \subseteq {"C22", "C45"} /\ InitModes # {}
       /\ Serialized \in BOOLEAN
       /\ QueryCanFail \in BOOLEAN

(***************************************************************************)
(* Protocol constants used by the shim.                                    *)
(***************************************************************************)
MII_ADDR_C45 == 2^30          \* tag bit of a Clause-45 register id
MMDCTRL      == 13            \* STD_MMDCTRL / 2: word index of MMDCTRL
MMDDATA      == 14            \* STD_MMDDATA / 2: word index of MMDDATA
MMD_FN_DATA  == 16384         \* 0x4000: MMDCTRL function "data, no increment"
IoctlError   == -1            \* what ioctl(2) returns on failure

AllDevs == {0} \cup Devs

(* The register ids a caller passes: Clause-45 ids packed as              *)
(* MII_ADDR_C45 | dev << 16 | offset, and plain Clause-22 numbers.          *)
C45Ids  == {MII_ADDR_C45 + d * 2^16 + o : d \in Devs, o \in Words}
RegIds  == C45Ids \cup PlainIds

(***************************************************************************)
(* The address codec, bit for bit as in the source.                        *)
(***************************************************************************)
IsC45(regnum) == (regnum & MII_ADDR_C45) # 0
\* Mutant: the device id without its 0x1F mask.
DevIdUnmasked(regnum) == shiftR(regnum, 16)
DevId(regnum) == shiftR(regnum, 16) & 31        \* (regnum >> 16) & 0x1F
RegNum(regnum) == regnum & 65535                 \* regnum & 0xFFFF
ToU8(x) == x % 256                               \* u8 _mdio_clause = ioctl(...)

(* The codec applied to every register id a caller can pass, computed once *)
(* (the id is a call argument, so this is the same value the source        *)
(* computes per call).                                                     *)
Codec == [r \in RegIds \cup {0} |-> [dev |-> DevId(r), reg |-> RegNum(r)]]

(***************************************************************************)
(* PHY cells.  A cell is a tuple naming what a transfer reaches.           *)
(***************************************************************************)
CtrlCell     == <<"ctrl">>
AddrCell(d)  == <<"addr", d>>
MmdCell(d, r) == <<"mmd", d, r>>
C22Cell(r)   == <<"c22", r>>
DataCells    == {MmdCell(d, r) : d \in AllDevs, r \in Words \cup {MMDCTRL, MMDDATA}}
                  \cup {C22Cell(r) : r \in Words}
LatchCells   == {CtrlCell} \cup {AddrCell(d) : d \in AllDevs}
Cells        == {CtrlCell} \cup {AddrCell(d) : d \in AllDevs} \cup DataCells

(* The register a caller means by a register id (spec 3 and 4.2): a       *)
(* Clause-45 id names MMD bits 16-20, offset bits 0-15; any other id names *)
(* the Clause-22 register of that number.                                  *)
Target(regnum) ==
  IF (regnum \div MII_ADDR_C45) % 2 = 1
    THEN MmdCell((regnum \div 2^16) % 32, regnum % 2^16)
    ELSE C22Cell(regnum)

VARIABLES
  mode,      \* bus clause the driver currently uses: "C22" or "C45"
  hw,        \* [Cells -> Int]: contents of the PHY cells
  pc,        \* [Procs -> step]
  call,      \* [Procs -> [op, regnum, data]]: arguments of the current call
  ret,       \* [Procs -> Int]: return value of the finished call
  owner,     \* the caller holding the controller, or None
  calls,     \* [Procs -> Nat]: calls made by each caller
  faults,    \* transport errors reported so far
  reinits,   \* driver re-initialisations so far
  wrote,     \* [Procs -> SUBSET DataCells]: data cells written by the current call
  readCell   \* [Procs -> DataCells \cup {None}]: data cell the current call read last

vars == <<mode, hw, pc, call, ret, owner, calls, faults, reinits,
          wrote, readCell>>

Steps == {"idle", "c45", "c22", "ext1", "ext2", "ext3", "ext4", "done"}

(***************************************************************************)
(* What one transfer reaches on the PHY.  In Clause-45 mode the driver     *)
(* sends a Clause-45 frame to (dev, reg); in Clause-22 mode a Clause-22    *)
(* frame to reg, where MMDCTRL and MMDDATA are the indirect-access pair.   *)
(***************************************************************************)
CtrlDev  == hw[CtrlCell] % 32
DataMode == (hw[CtrlCell] \div MMD_FN_DATA) % 4 = 1

(* A register outside the cells the model tracks keeps no value.          *)
Store(c, v) == IF c \in Cells THEN [hw EXCEPT ![c] = v] ELSE hw
Load(c) == IF c \in Cells THEN hw[c] ELSE 0

(* The Clause-45 branch is the driver's, not the shim's: in Clause-45 mode *)
(* it sends (dev, reg) as a Clause-45 frame.                               *)
Reach(dev, reg) ==
  CASE mode = "C45"                 -> MmdCell(dev, reg)
    [] reg = MMDCTRL                -> CtrlCell
    [] reg = MMDDATA /\ DataMode    -> MmdCell(CtrlDev, hw[AddrCell(CtrlDev)])
    [] reg = MMDDATA                -> AddrCell(CtrlDev)
    [] OTHER                        -> C22Cell(reg)

(***************************************************************************)
(* One ioctl transfer of caller p: a read or write of (dev, reg).  Either  *)
(* the driver reports an error (bounded by MaxFaults) and nothing changes  *)
(* on the PHY, and the call returns it at once (every "if (ret < 0)        *)
(* return ret;" of the source); or the transfer takes effect and the call  *)
(* moves on to step next.  A transfer that ends the call sets its result.  *)
(***************************************************************************)
Finish(p, r) ==
  /\ pc' = [pc EXCEPT ![p] = "done"]
  /\ ret' = [ret EXCEPT ![p] = r]

Xfer(p, kind, dev, reg, val, next) ==
  LET c == Reach(dev, reg) IN
  /\ \/ /\ faults < MaxFaults
        /\ faults' = faults + 1
        /\ Finish(p, IoctlError)
        /\ UNCHANGED <<hw, wrote, readCell>>
     \/ /\ IF kind = "wr"
             THEN /\ hw' = Store(c, val)
                  /\ wrote' = IF c \in LatchCells THEN wrote
                                 ELSE [wrote EXCEPT ![p] = @ \cup {c}]
                  /\ UNCHANGED readCell
             ELSE /\ readCell' = [readCell EXCEPT ![p] = IF c \in LatchCells THEN None ELSE c]
                  /\ UNCHANGED <<hw, wrote>>
        /\ IF next = "done"
             THEN Finish(p, IF kind = "wr" THEN 0 ELSE Load(c))
             ELSE /\ pc' = [pc EXCEPT ![p] = next]
                  /\ UNCHANGED ret
        /\ UNCHANGED faults

(***************************************************************************)
(* Entry points gpy211_mdio_read / gpy211_mdio_write: query the clause     *)
(* (MAC_CLI_GET_MDIO_CL), keep it as a u8, and dispatch on it:             *)
(* 0 -> native Clause-45 transfer; else a tagged id -> Clause-22 extended  *)
(* (MMD emulation); else a plain Clause-22 transfer.                       *)
(***************************************************************************)
ClauseQuery(fail) ==
  IF fail THEN ToU8(IoctlError) ELSE IF mode = "C45" THEN 0 ELSE 1

Dispatch(cl, regnum) ==
  IF cl = 0 THEN "c45" ELSE IF IsC45(regnum) THEN "ext1" ELSE "c22"

StartCall(p, op, regnum, data) ==
  /\ pc[p] = "idle"
  /\ calls[p] < MaxCalls
  /\ ~Serialized \/ owner = None
  /\ owner' = IF Serialized THEN p ELSE owner
  /\ calls' = [calls EXCEPT ![p] = @ + 1]
  /\ call' = [call EXCEPT ![p] = [op |-> op, regnum |-> regnum, data |-> data]]
  /\ wrote' = [wrote EXCEPT ![p] = {}]
  /\ readCell' = [readCell EXCEPT ![p] = None]
  /\ \E fail \in IF QueryCanFail /\ faults < MaxFaults THEN BOOLEAN ELSE {FALSE} :
       LET cl == ClauseQuery(fail) IN
       /\ faults' = IF fail THEN faults + 1 ELSE faults
       /\ pc' = [pc EXCEPT ![p] = Dispatch(cl, regnum)]
  /\ UNCHANGED <<mode, hw, ret, reinits>>

(* The ids a caller passes in the current bus clause.  A plain id is     *)
(* passed only on a Clause-22 bus: on a Clause-45 bus the ioctl the shim  *)
(* sends for it is the same (device 0, the id as register) whichever      *)
(* helper sends it, and what the driver then does is outside the shim.    *)
CallerIds == C45Ids \cup (IF mode = "C22" THEN PlainIds ELSE {})

gpy211_mdio_read(p) ==
  \E regnum \in CallerIds : StartCall(p, "rd", regnum, 0)

gpy211_mdio_write(p) ==
  \E regnum \in CallerIds, data \in Words : StartCall(p, "wr", regnum, data)

\* Mutant: the native Clause-45 transfer sends device 0, as the Clause-22 one does.
c45mdio_dev0(p) ==
  /\ pc[p] = "c45"
  /\ Xfer(p, call[p].op, 0, Codec[call[p].regnum].reg, call[p].data, "done")
  /\ UNCHANGED <<mode, call, owner, calls, reinits>>

(* _gpy211_c45mdio_read / _write: one transfer to (dev_id, reg_num).       *)
c45mdio(p) ==
  /\ pc[p] = "c45"
  /\ LET r == Codec[call[p].regnum] IN
       Xfer(p, call[p].op, r.dev, r.reg, call[p].data, "done")
  /\ UNCHANGED <<mode, call, owner, calls, reinits>>

(* _gpy211_c22mdio_read / _write: one transfer with dev 0 and the full     *)
(* regnum as register.                                                     *)
c22mdio(p) ==
  /\ pc[p] = "c22"
  /\ Xfer(p, call[p].op, 0, call[p].regnum, call[p].data, "done")
  /\ UNCHANGED <<mode, call, owner, calls, reinits>>

\* Mutant: the third write sets the data function without the device (0x4000).
c22extnd_nodev(p) ==
  LET r == Codec[call[p].regnum] IN
  /\ \/ pc[p] = "ext1" /\ Xfer(p, "wr", 0, MMDCTRL, r.dev, "ext2")
     \/ pc[p] = "ext2" /\ Xfer(p, "wr", 0, MMDDATA, r.reg, "ext3")
     \/ pc[p] = "ext3" /\ Xfer(p, "wr", 0, MMDCTRL, MMD_FN_DATA, "ext4")
     \/ pc[p] = "ext4" /\ Xfer(p, call[p].op, 0, MMDDATA, call[p].data, "done")
  /\ UNCHANGED <<mode, call, owner, calls, reinits>>

(* _gpy211_c22extnd_read / _write: MMDCTRL := dev; MMDDATA := reg_num;     *)
(* MMDCTRL := 0x4000 + dev; then read MMDDATA, or write data to it.        *)
c22extnd(p) ==
  LET r == Codec[call[p].regnum] IN
  /\ \/ pc[p] = "ext1" /\ Xfer(p, "wr", 0, MMDCTRL, r.dev, "ext2")
     \/ pc[p] = "ext2" /\ Xfer(p, "wr", 0, MMDDATA, r.reg, "ext3")
     \/ pc[p] = "ext3" /\ Xfer(p, "wr", 0, MMDCTRL, MMD_FN_DATA + r.dev, "ext4")
     \/ pc[p] = "ext4" /\ Xfer(p, call[p].op, 0, MMDDATA, call[p].data, "done")
  /\ UNCHANGED <<mode, call, owner, calls, reinits>>

(* The caller takes the result and releases the controller.               *)
Return(p) ==
  /\ pc[p] = "done"
  /\ pc' = [pc EXCEPT ![p] = "idle"]
  /\ owner' = IF Serialized THEN None ELSE owner
  /\ UNCHANGED <<mode, hw, call, ret, calls, faults, reinits, wrote, readCell>>

(* The driver re-initialises the PHY bus and flips its clause, between    *)
(* calls.                                                                   *)
Reinit ==
  /\ reinits < MaxReinits
  /\ \A p \in Procs : pc[p] = "idle"
  /\ mode' = IF mode = "C45" THEN "C22" ELSE "C45"
  /\ reinits' = reinits + 1
  /\ UNCHANGED <<hw, pc, call, ret, owner, calls, faults,
                 wrote, readCell>>

Init ==
  /\ mode \in InitModes
  /\ hw = [c \in Cells |-> 0]
  /\ pc = [p \in Procs |-> "idle"]
  /\ call = [p \in Procs |-> [op |-> "rd", regnum |-> 0, data |-> 0]]
  /\ ret = [p \in Procs |-> 0]
  /\ owner = None
  /\ calls = [p \in Procs |-> 0]
  /\ faults = 0
  /\ reinits = 0
  /\ wrote = [p \in Procs |-> {}]
  /\ readCell = [p \in Procs |-> None]

Next ==
  \/ \E p \in Procs :
       \/ gpy211_mdio_read(p) \/ gpy211_mdio_write(p)
       \/ c45mdio(p) \/ c22mdio(p) \/ c22extnd(p)
       \/ Return(p)
  \/ Reinit

Spec == Init /\ [][Next]_vars


(***************************************************************************)
(* Properties.                                                             *)
(***************************************************************************)

(* Type invariant.  Beyond the shapes of the variables: every transfer of *)
(* a call reaches a register of the PHY's address space (MMD device 0..31, *)
(* a 16-bit offset), i.e. the codec never hands the driver an unmasked id. *)
TypeOK ==
  /\ mode \in {"C22", "C45"}
  /\ hw \in [Cells -> Int]
  /\ pc \in [Procs -> Steps]
  /\ call \in [Procs -> [op : {"rd", "wr"}, regnum : RegIds \cup {0}, data : Words \cup {0}]]
  /\ ret \in [Procs -> Int]
  /\ owner \in Procs \cup {None}
  /\ calls \in [Procs -> 0..MaxCalls]
  /\ faults \in 0..MaxFaults /\ reinits \in 0..MaxReinits
  /\ wrote \in [Procs -> SUBSET DataCells]
  /\ readCell \in [Procs -> DataCells \cup {None}]

(* Spec 3 and 4.2: a call reaches exactly the register its id names.  When *)
(* a call of gpy211_mdio_read/_write has finished, every data register its *)
(* transfers wrote is the target (none for a read); a successful write has *)
(* written the target and a successful read has read it.  A failed call    *)
(* (every early "return ret" of the c22extnd functions) has written nothing *)
(* but the MMDCTRL/MMDDATA latches.                                        *)
CallTouchesOnlyTarget ==
  \A p \in Procs : pc[p] = "done" =>
    LET t == Target(call[p].regnum) IN
    /\ wrote[p] \subseteq (IF call[p].op = "wr" THEN {t} ELSE {})
    /\ ret[p] >= 0 => IF call[p].op = "wr" THEN wrote[p] = {t}
                                           ELSE readCell[p] = t

(***************************************************************************)
(* Refinement: with callers serialised, the shim implements the register   *)
(* file of MdioRegisterFile.  The abstract registers are the PHY's data    *)
(* cells; a call is busy from its clause query to its last transfer, and   *)
(* names the register Target(regnum).  Latch writes and re-initialisations *)
(* are stuttering steps; the last transfer of a call is its Serve step.    *)
(***************************************************************************)
AbsPc == [p \in Procs |-> CASE pc[p] = "idle" -> "idle"
                            [] pc[p] = "done" -> "done"
                            [] OTHER          -> "busy"]
AbsReq == [p \in Procs |-> [op |-> call[p].op, reg |-> Target(call[p].regnum),
                            data |-> call[p].data]]

Abs == INSTANCE MdioRegisterFile WITH
         Regs <- DataCells, Error <- IoctlError,
         regs <- [c \in DataCells |-> hw[c]], apc <- AbsPc, req <- AbsReq,
         result <- ret

(* Spec 3, 4.4, 7 and the round trip of spec 8: every behaviour of the     *)
(* shim's read/write entry points is a behaviour of the atomic register    *)
(* file: each call changes at most its own register, and only at its last  *)
(* transfer; a read returns the register's current contents; a failed     *)
(* call changes no register.                                               *)
ImplementsRegisterFile == Abs!SafetySpec

=============================================================================
