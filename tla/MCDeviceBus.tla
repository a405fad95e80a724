---------------------------- MODULE MCDeviceBus ----------------------------
(* Register files with ranges from empty to past the top of the address space *)
(* and of the ports, and one device of each other kind with its whole window. *)
EXTENDS DeviceBus

Range(base, len) == [base |-> base, len |-> len]
Wants(kind, m, p, line) == [kind |-> kind, mmio |-> m, io |-> p, irq |-> line]

RegisterFiles ==
  {Wants("test", Range(b, l), NoRange, NoLine) : b \in 0 .. MaxAddr, l \in 0 .. 2}
  \cup {Wants("test", Range(0, 1), Range(0, 2), 5), Wants("test", Range(1, 1), Range(1, 1), 5),
        Wants("test", NoRange, Range(1, 2), 6), Wants("test", NoRange, Range(0, 0), NoLine)}
MCRegistrations ==
  RegisterFiles \cup
  {Wants("console", Range(1, 2), NoRange, 6), Wants("rng", Range(0, 2), NoRange, NoLine),
   Wants("net", Range(0, 3), NoRange, NoLine), Wants("clock", Range(3, 1), NoRange, NoLine)}

\* Two register files, for the last address.
MCTopRegistrations == {Wants("test", Range(b, 2), NoRange, NoLine) : b \in 0 .. MaxAddr}
=============================================================================
