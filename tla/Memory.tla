---- MODULE Memory ----
(***************************************************************************)
(* What SlaveStore promises the tasks that share it: four tables with a     *)
(* value at every address, reads and writes of a range that are atomic, an  *)
(* atomic masked write, and an exchange (function code 23) that reads first *)
(* and writes later.  Nothing grows and nothing is packed.                  *)
(***************************************************************************)
EXTENDS Integers, Sequences

CONSTANTS
  Tasks,       \* server tasks and users of the store's methods
  Requests,    \* what they may ask for
  Preloads,    \* contents of holding registers to begin with
  AddrCount,   \* size of the address space (65536)
  Bits         \* the bits of a register (16)

Tables == {"coils", "discrete_inputs", "holding_registers", "input_registers"}
BitTables == {"coils", "discrete_inputs"}

Addrs == 0..(AddrCount - 1)

Zero(tab) == IF tab \in BitTables THEN FALSE ELSE {}

VARIABLES
  mem,      \* the value at each address of each table
  gathered, \* of each task: what its exchange has read, or <<>>
  reply     \* the last response given, and to whom

mvars == <<mem, gathered, reply>>

Overlay(f, addr, values) ==
  [a \in Addrs |-> IF a - addr + 1 \in 1..Len(values)
                   THEN values[a - addr + 1] ELSE f[a]]

Range(tab, addr, qty) == [i \in 1..qty |-> mem[tab][addr + i - 1]]

\* The last pair of a preload that names an address gives its value.
Preloaded(regs, a) ==
  LET named == {i \in 1..Len(regs) : regs[i][1] = a}
  IN IF named = {} THEN {}
     ELSE regs[CHOOSE i \in named : \A j \in named : j <= i][2]

MInit ==
  /\ \E regs \in Preloads :
       mem = [tab \in Tables |-> [a \in Addrs |->
                IF tab = "holding_registers" THEN Preloaded(regs, a) ELSE Zero(tab)]]
  /\ gathered = [t \in Tasks |-> <<>>]
  /\ reply = <<>>

MRead(t, r) ==
  /\ r.op = "read" /\ gathered[t] = <<>>
  /\ reply' = <<t, IF r.tab \in BitTables THEN "bits" ELSE "registers",
                Range(r.tab, r.addr, r.qty)>>
  /\ UNCHANGED <<mem, gathered>>

MWrite(t, r) ==
  /\ r.op = "write" /\ gathered[t] = <<>>
  /\ mem' = [mem EXCEPT ![r.tab] = Overlay(@, r.addr, r.values)]
  /\ reply' = <<t, "written", <<>>>>
  /\ UNCHANGED gathered

MMask(t, r) ==
  /\ r.op = "mask" /\ gathered[t] = <<>>
  /\ mem' = [mem EXCEPT !["holding_registers"][r.addr] =
               {b \in Bits : b \in IF b \in r.and_mask THEN @ ELSE r.or_mask}]
  /\ reply' = <<t, "written", <<>>>>
  /\ UNCHANGED gathered

MExchangeRead(t, r) ==
  /\ r.op = "exchange" /\ gathered[t] = <<>>
  /\ gathered' = [gathered EXCEPT ![t] =
                    <<r, Range("holding_registers", r.addr, r.qty)>>]
  /\ UNCHANGED <<mem, reply>>

MExchangeWrite(t) ==
  /\ gathered[t] # <<>>
  /\ LET r == gathered[t][1]
     IN mem' = [mem EXCEPT !["holding_registers"] =
                  Overlay(@, r.write_addr, r.values)]
  /\ reply' = <<t, "registers", gathered[t][2]>>
  /\ gathered' = [gathered EXCEPT ![t] = <<>>]

\* A diagnostic request touches no table.
MDiagnostic(t, r) ==
  /\ r.op = "diagnostic" /\ gathered[t] = <<>>
  /\ reply' \in {<<t, "echo", <<r.data>>>>, <<t, "echo", <<0>>>>,
                <<t, "IllegalDataValue", <<>>>>}
  /\ UNCHANGED <<mem, gathered>>

MNext ==
  \E t \in Tasks :
    \/ \E r \in Requests : \/ MRead(t, r) \/ MWrite(t, r) \/ MMask(t, r)
                           \/ MExchangeRead(t, r) \/ MDiagnostic(t, r)
    \/ MExchangeWrite(t)

MSpec == MInit /\ [][MNext]_mvars
====
