--------------------------- MODULE MdioRegisterFile ---------------------------
(***************************************************************************)
(* What the MDIO shim promises its callers (spec sections 3, 4.4, 7):      *)
(* a PHY register file in which every gpy211_mdio_read/_write call takes   *)
(* effect atomically on exactly the register its id names, or fails with   *)
(* no effect on any register.  The translation into Clause-22, native      *)
(* Clause-45 or emulated transfers is invisible at this level.             *)
(***************************************************************************)
EXTENDS Integers

CONSTANTS
  Procs,  \* callers
  Regs,   \* registers a call can name
  Words,  \* data words
  Error   \* the result of a failed call

VARIABLES
  regs,    \* [Regs -> Int]: register contents
  apc,     \* [Procs -> {"idle", "busy", "done"}]
  req,     \* [Procs -> [op, reg, data]]: the call in progress
  result   \* [Procs -> Int]: result of the last finished call

avars == <<regs, apc, req, result>>

Init ==
  /\ regs = [r \in Regs |-> 0]
  /\ apc = [p \in Procs |-> "idle"]
  /\ req \in [Procs -> [op : {"rd", "wr"}, reg : Regs, data : Words \cup {0}]]
  /\ result = [p \in Procs |-> 0]

Begin(p) ==
  /\ apc[p] = "idle"
  /\ apc' = [apc EXCEPT ![p] = "busy"]
  /\ \E op \in {"rd", "wr"}, r \in Regs, d \in Words \cup {0} :
       req' = [req EXCEPT ![p] = [op |-> op, reg |-> r, data |-> d]]
  /\ UNCHANGED <<regs, result>>

(* The call takes effect: a write stores its data, a read returns the      *)
(* register's contents.                                                    *)
Serve(p) ==
  LET q == req[p] IN
  /\ apc[p] = "busy"
  /\ apc' = [apc EXCEPT ![p] = "done"]
  /\ IF q.op = "wr"
       THEN /\ regs' = [regs EXCEPT ![q.reg] = q.data]
            /\ result' = [result EXCEPT ![p] = 0]
       ELSE /\ result' = [result EXCEPT ![p] = regs[q.reg]]
            /\ UNCHANGED regs
  /\ UNCHANGED req

Fail(p) ==
  /\ apc[p] = "busy"
  /\ apc' = [apc EXCEPT ![p] = "done"]
  /\ result' = [result EXCEPT ![p] = Error]
  /\ UNCHANGED <<regs, req>>

Return(p) ==
  /\ apc[p] = "done"
  /\ apc' = [apc EXCEPT ![p] = "idle"]
  /\ UNCHANGED <<regs, req, result>>

Next == \E p \in Procs : Begin(p) \/ Serve(p) \/ Fail(p) \/ Return(p)

SafetySpec == Init /\ [][Next]_avars

(* Every call that has begun finishes and returns.                         *)
Spec ==
  /\ SafetySpec
  /\ \A p \in Procs : WF_avars(Serve(p) \/ Fail(p)) /\ WF_avars(Return(p))

=============================================================================
