---- MODULE SlaveStore ----
(***************************************************************************)
(* SlaveStore (slave_store.rs): vectors that grow on demand, bits packed    *)
(* into bytes, and one RwLock per table.  A critical section is one step:   *)
(* no await and no panic is inside one.  Function code 23 takes the lock    *)
(* twice, and other tasks may run in between.                               *)
(*                                                                          *)
(* A register is the set of its bits that are 1, a byte likewise.           *)
(***************************************************************************)
EXTENDS Integers, Sequences

CONSTANTS
  Tasks,              \* connection handlers and users of the methods
  Requests,           \* decoded requests (frame.rs bounds addr + qty)
  Preloads,           \* arguments of with_holding_registers
  AddrCount,          \* size of the address space (65536)
  Bits,               \* the bits of a register (16)
  ByteBits,           \* bits per byte (8)
  DEFAULT_REG_COUNT   \* registers allocated at first (1024)

\* A range lies inside the address space, as decode_request makes sure.
InSpace(addr, qty) == addr \in Nat /\ qty \in Nat \ {0} /\ addr + qty <= AddrCount

Ops == {"read", "write", "mask", "exchange", "diagnostic"}
BitNames == {"coils", "discrete_inputs"}
RegisterNames == {"holding_registers", "input_registers"}

ASSUME StoreConstants ==
  /\ AddrCount \in Nat \ {0} /\ ByteBits \in Nat \ {0}
  /\ AddrCount % ByteBits = 0
  /\ DEFAULT_REG_COUNT \in 1..AddrCount
  /\ \A regs \in Preloads : regs \in Seq((0..(AddrCount - 1)) \X SUBSET Bits)
  /\ \A r \in Requests :
       /\ r.op \in Ops
       /\ r.op = "read" => r.tab \in BitNames \cup RegisterNames /\ InSpace(r.addr, r.qty)
       /\ r.op = "write" => /\ \/ r.tab \in BitNames /\ r.values \in Seq(BOOLEAN)
                               \/ r.tab \in RegisterNames /\ r.values \in Seq(SUBSET Bits)
                            /\ InSpace(r.addr, Len(r.values))
       /\ r.op = "mask" => InSpace(r.addr, 1) /\ {r.and_mask, r.or_mask} \subseteq SUBSET Bits
       /\ r.op = "exchange" => /\ InSpace(r.addr, r.qty) /\ r.values \in Seq(SUBSET Bits)
                               /\ InSpace(r.write_addr, Len(r.values))

VARIABLES
  coils, discrete_inputs,               \* Vec<u8>, bit-packed
  holding_registers, input_registers,   \* Vec<u16>
  exchanging,                           \* of each task: FC 23 between its locks
  reply                                 \* the last response, and to whom

tables == <<coils, discrete_inputs, holding_registers, input_registers>>
vars == <<tables, exchanging, reply>>

----------------------------------------------------------------------------
(* Vectors *)

\* Mutant: the vector grows by one element more than asked for.
Resize_TooFar(vec, n) ==
  IF n <= Len(vec) THEN vec
  ELSE [i \in 1..(n + 1) |-> IF i <= Len(vec) THEN vec[i] ELSE {}]

\* Vec::resize(n, 0), called only to grow.
Resize(vec, n) ==
  IF n <= Len(vec) THEN vec
  ELSE [i \in 1..n |-> IF i <= Len(vec) THEN vec[i] ELSE {}]

\* read_registers: zeros, with what the vector has copied over them.
ReadRegisters(regs, addr, count) ==
  [i \in 1..count |-> IF addr + i <= Len(regs) THEN regs[addr + i] ELSE {}]

\* Batch or single register writes, growing the vector as they go.
WriteRegisters(regs, addr, values) ==
  IF values = <<>> THEN regs
  ELSE [i \in 1..Len(Resize(regs, addr + Len(values))) |->
          IF i - addr \in 1..Len(values) THEN values[i - addr]
          ELSE Resize(regs, addr + Len(values))[i]]

ByteIdx(a) == a \div ByteBits
BitIdx(a) == a % ByteBits

\* read_bits: a bit beyond the vector is false.
ReadBits(bytes, addr, count) ==
  [i \in 1..count |-> LET a == addr + i - 1
                      IN ByteIdx(a) < Len(bytes) /\ BitIdx(a) \in bytes[ByteIdx(a) + 1]]

\* Bits set and cleared in place, growing the vector as it goes.
WriteBits(bytes, addr, values) ==
  LET grown == Resize(bytes, ByteIdx(addr + Len(values) - 1) + 1)
      given(i, b) == (i - 1) * ByteBits + b - addr + 1
  IN IF values = <<>> THEN bytes
     ELSE [i \in 1..Len(grown) |->
             {b \in 0..(ByteBits - 1) : IF given(i, b) \in 1..Len(values)
                                        THEN values[given(i, b)]
                                        ELSE b \in grown[i]}]

\* with_holding_registers: grow to the largest address, then store in order.
LastFor(regs, a) ==
  LET named == {i \in 1..Len(regs) : regs[i][1] = a}
  IN IF named = {} THEN {}
     ELSE regs[CHOOSE i \in named : \A j \in named : j <= i][2]

WithHoldingRegisters(regs) ==
  LET sizes == {DEFAULT_REG_COUNT} \cup {regs[i][1] + 1 : i \in 1..Len(regs)}
      size == CHOOSE n \in sizes : \A m \in sizes : m <= n
  IN [i \in 1..size |-> LastFor(regs, i - 1)]

Init ==
  /\ \E regs \in Preloads : holding_registers = WithHoldingRegisters(regs)
  /\ input_registers = [i \in 1..DEFAULT_REG_COUNT |-> {}]
  /\ coils = [i \in 1..(DEFAULT_REG_COUNT \div ByteBits) |-> {}]
  /\ discrete_inputs = [i \in 1..(DEFAULT_REG_COUNT \div ByteBits) |-> {}]
  /\ exchanging = [t \in Tasks |-> <<>>]
  /\ reply = <<>>

----------------------------------------------------------------------------
(* Service::call and the methods, one step per critical section *)

Free(t) == exchanging[t] = <<>>

\* Function codes 1 to 4.
ReadTable(t, r) ==
  /\ Free(t) /\ r.op = "read"
  /\ reply' =
       CASE r.tab = "coils" -> <<t, "bits", ReadBits(coils, r.addr, r.qty)>>
         [] r.tab = "discrete_inputs" ->
              <<t, "bits", ReadBits(discrete_inputs, r.addr, r.qty)>>
         [] r.tab = "holding_registers" ->
              <<t, "registers", ReadRegisters(holding_registers, r.addr, r.qty)>>
         [] r.tab = "input_registers" ->
              <<t, "registers", ReadRegisters(input_registers, r.addr, r.qty)>>
  /\ UNCHANGED <<tables, exchanging>>

\* Function codes 5 and 15.
WriteCoils(t, r) ==
  /\ Free(t) /\ r.op = "write" /\ r.tab = "coils"
  /\ coils' = WriteBits(coils, r.addr, r.values)
  /\ reply' = <<t, "written", <<>>>>
  /\ UNCHANGED <<discrete_inputs, holding_registers, input_registers, exchanging>>

\* Function codes 6 and 16.
WriteHolding(t, r) ==
  /\ Free(t) /\ r.op = "write" /\ r.tab = "holding_registers"
  /\ holding_registers' = WriteRegisters(holding_registers, r.addr, r.values)
  /\ reply' = <<t, "written", <<>>>>
  /\ UNCHANGED <<coils, discrete_inputs, input_registers, exchanging>>

\* write_discrete_input and write_input_register, for simulations.
WriteDiscreteInput(t, r) ==
  /\ Free(t) /\ r.op = "write" /\ r.tab = "discrete_inputs"
  /\ discrete_inputs' = WriteBits(discrete_inputs, r.addr, r.values)
  /\ reply' = <<t, "written", <<>>>>
  /\ UNCHANGED <<coils, holding_registers, input_registers, exchanging>>

WriteInputRegister(t, r) ==
  /\ Free(t) /\ r.op = "write" /\ r.tab = "input_registers"
  /\ input_registers' = WriteRegisters(input_registers, r.addr, r.values)
  /\ reply' = <<t, "written", <<>>>>
  /\ UNCHANGED <<coils, discrete_inputs, holding_registers, exchanging>>

\* Function code 22: read, combine and store under one write lock.
MaskWrite(t, r) ==
  /\ Free(t) /\ r.op = "mask"
  /\ LET hr == Resize(holding_registers, r.addr + 1)
     IN holding_registers' =
          [hr EXCEPT ![r.addr + 1] = (@ \cap r.and_mask) \cup (r.or_mask \ r.and_mask)]
  /\ reply' = <<t, "written", <<>>>>
  /\ UNCHANGED <<coils, discrete_inputs, input_registers, exchanging>>

\* Function code 23: the read, under a read lock that is then released ...
ExchangeRead(t, r) ==
  /\ Free(t) /\ r.op = "exchange"
  /\ exchanging' = [exchanging EXCEPT ![t] =
                      <<r, ReadRegisters(holding_registers, r.addr, r.qty)>>]
  /\ UNCHANGED <<tables, reply>>

\* Mutant: the response is read again when the write is done.
ExchangeWrite_ReadsAgain(t) ==
  /\ ~Free(t)
  /\ LET r == exchanging[t][1]
     IN /\ holding_registers' =
             WriteRegisters(holding_registers, r.write_addr, r.values)
        /\ reply' = <<t, "registers", ReadRegisters(holding_registers', r.addr, r.qty)>>
  /\ exchanging' = [exchanging EXCEPT ![t] = <<>>]
  /\ UNCHANGED <<coils, discrete_inputs, input_registers>>

\* ... and the write, under the write lock.
ExchangeWrite(t) ==
  /\ ~Free(t)
  /\ LET r == exchanging[t][1]
     IN holding_registers' =
          WriteRegisters(holding_registers, r.write_addr, r.values)
  /\ reply' = <<t, "registers", exchanging[t][2]>>
  /\ exchanging' = [exchanging EXCEPT ![t] = <<>>]
  /\ UNCHANGED <<coils, discrete_inputs, input_registers>>

\* Function code 8: echo, counters that are not kept, or an exception.
Diagnostic(t, r) ==
  /\ Free(t) /\ r.op = "diagnostic"
  /\ reply' = CASE r.sf = 0 -> <<t, "echo", <<r.data>>>>
                [] r.sf \in 10..14 -> <<t, "echo", <<0>>>>
                [] OTHER -> <<t, "IllegalDataValue", <<>>>>
  /\ UNCHANGED <<tables, exchanging>>

Next ==
  \E t \in Tasks :
    \/ \E r \in Requests :
         \/ ReadTable(t, r) \/ WriteCoils(t, r) \/ WriteHolding(t, r)
         \/ WriteDiscreteInput(t, r) \/ WriteInputRegister(t, r)
         \/ MaskWrite(t, r) \/ ExchangeRead(t, r) \/ Diagnostic(t, r)
    \/ ExchangeWrite(t)

Spec == Init /\ [][Next]_vars

----------------------------------------------------------------------------
(* Properties *)

\* Vectors of registers and bytes that never outgrow the address space.
TypeOK ==
  /\ \A vec \in {holding_registers, input_registers} :
       vec \in Seq(SUBSET Bits) /\ Len(vec) <= AddrCount
  /\ \A vec \in {coils, discrete_inputs} :
       vec \in Seq(SUBSET (0..(ByteBits - 1))) /\ Len(vec) * ByteBits <= AddrCount

\* The value a reader finds at each address.
RegisterAt(vec, a) == IF a < Len(vec) THEN vec[a + 1] ELSE {}
BitAt(vec, a) == ByteIdx(a) < Len(vec) /\ BitIdx(a) \in vec[ByteIdx(a) + 1]

Contents ==
  [tab \in {"coils", "discrete_inputs", "holding_registers", "input_registers"} |->
    [a \in 0..(AddrCount - 1) |->
       CASE tab = "coils" -> BitAt(coils, a)
         [] tab = "discrete_inputs" -> BitAt(discrete_inputs, a)
         [] tab = "holding_registers" -> RegisterAt(holding_registers, a)
         [] tab = "input_registers" -> RegisterAt(input_registers, a)]]

M == INSTANCE Memory WITH mem <- Contents, gathered <- exchanging

\* The store is the memory of Memory.tla: growing and packing are invisible,
\* ranges are read and written atomically, no masked write is lost, and an
\* exchange returns what it read before it wrote.
ImplementsMemory == M!MSpec
====
