---- MODULE MCSlaveStore ----
(***************************************************************************)
(* Two tasks on a store of four addresses of which two are allocated, with  *)
(* registers of two bits and bytes of two.                                  *)
(***************************************************************************)
EXTENDS SlaveStore

Rd(tab, addr, qty) == [op |-> "read", tab |-> tab, addr |-> addr, qty |-> qty]
Wr(tab, addr, values) == [op |-> "write", tab |-> tab, addr |-> addr, values |-> values]
Mask(addr, and, or) == [op |-> "mask", addr |-> addr, and_mask |-> and, or_mask |-> or]

MCRequests ==
  { Rd("holding_registers", 0, 4), Rd("holding_registers", 3, 1),
    Wr("holding_registers", 1, <<{0}, {1}>>), Wr("holding_registers", 3, <<{0, 1}>>),
    Mask(0, {0}, {0, 1}), Mask(0, {1}, {}), Mask(2, {}, {1}),
    [op |-> "exchange", addr |-> 0, qty |-> 2, write_addr |-> 1, values |-> <<{1}, {}>>],
    Rd("coils", 0, 4), Wr("coils", 1, <<TRUE, FALSE>>), Wr("coils", 2, <<TRUE>>),
    Wr("coils", 1, <<FALSE>>),
    Rd("discrete_inputs", 2, 2), Wr("discrete_inputs", 3, <<TRUE>>),
    Rd("input_registers", 1, 3), Wr("input_registers", 2, <<{0}>>),
    [op |-> "diagnostic", sf |-> 0, data |-> 7], [op |-> "diagnostic", sf |-> 10, data |-> 7],
    [op |-> "diagnostic", sf |-> 1, data |-> 7] }

MCPreloads == { <<>>, << <<0, {0, 1}>>, <<2, {0}>>, <<0, {1}>> >> }
====
